---------------------------- MODULE Spec2Model ----------------------------
(***************************************************************************)
(* Model of the polyanya any-angle path search (src/src/lib.rs and         *)
(* src/src/helpers.rs).                                                    *)
(*                                                                         *)
(* Numbers.  The program computes in f32.  The model computes in fixed     *)
(* point: a coordinate is an integer number of hundredths (Scale units per *)
(* 1.0), a length (f, g, a distance) is an integer number of thousandths   *)
(* (LenScale units per 1.0).  Every operation that rounds in f32 rounds to *)
(* the grid here.  NaN is a value of its own, division by zero gives NaN   *)
(* or a signed infinity as in IEEE-754.  Indices (vertices, polygons) are  *)
(* 0-based as in the program; sequences are 1-based, hence the "+ 1".      *)
(***************************************************************************)
EXTENDS Integers, Sequences, FiniteSets, TLC

\* x as f32 (Vertex::new): one unit of the mesh file is Scale coordinate units.
Scale == 100
\* lengths carry one more decimal digit than coordinates
LenScale == 1000
\* f32::NAN, as a coordinate or as a length
NaN == -999999
NaNPt == <<NaN, NaN>>
\* usize and isize are modelled UsizeBits wide
UsizeBits == 16
UsizeMax == 2^UsizeBits - 1
IsizeMax == 2^(UsizeBits - 1) - 1
\* `x as isize` of a usize
AsIsize(u) == IF u > IsizeMax THEN u - 2^UsizeBits ELSE u

Abs(x) == IF x < 0 THEN -x ELSE x
Sgn(x) == IF x < 0 THEN -1 ELSE IF x > 0 THEN 1 ELSE 0
MinI(a, b) == IF a < b THEN a ELSE b
MaxI(a, b) == IF a < b THEN b ELSE a

RECURSIVE Gcd(_, _)
Gcd(a, b) == IF b = 0 THEN a ELSE Gcd(b, a % b)

\* n / d rounded to the nearest integer, d > 0
RoundDiv(n, d) == (2 * n + d) \div (2 * d)

\* floor of the square root, by bisection on [lo, hi]
RECURSIVE SqrtBetween(_, _, _)
SqrtBetween(n, lo, hi) ==
    IF lo >= hi THEN lo
    ELSE LET mid == (lo + hi + 1) \div 2
         IN  IF mid * mid <= n THEN SqrtBetween(n, mid, hi)
             ELSE SqrtBetween(n, lo, mid - 1)
Sqrt(n) == SqrtBetween(n, 0, MinI(n, 46340))

IsNaNPt(p) == p[1] = NaN \/ p[2] = NaN

(***************************************************************************)
(* helpers.rs                                                              *)
(***************************************************************************)
\* the three values of enum EdgeSide
EdgeSide == {"Left", "Right", "Edge"}

\* 1e-2 on a product of two coordinate differences
SideEps == 100

\* the cross product on_side compares; NaN when the point is NaN
SideCross(point, i) ==
    IF IsNaNPt(point) \/ IsNaNPt(i[1]) \/ IsNaNPt(i[2]) THEN NaN
    ELSE (point[2] - i[1][2]) * (i[2][1] - i[1][1])
         - (point[1] - i[1][1]) * (i[2][2] - i[1][2])

on_side(point, i) ==
    LET x == SideCross(point, i)
    IN  IF x = NaN THEN "Left"          \* both comparisons are false on NaN
        ELSE IF Abs(x) < SideEps THEN "Edge"
        ELSE IF x < 0 THEN "Right"
        ELSE "Left"

on_segment(point, i) ==
    /\ ~IsNaNPt(point)
    /\ MinI(i[1][1], i[2][1]) <= point[1] /\ point[1] <= MaxI(i[1][1], i[2][1])
    /\ MinI(i[1][2], i[2][2]) <= point[2] /\ point[2] <= MaxI(i[1][2], i[2][2])
    /\ on_side(point, i) = "Edge"

\* sqrt(dx^2 + dy^2) in length units
distance_between(from, to) ==
    IF IsNaNPt(from) \/ IsNaNPt(to) THEN NaN
    ELSE LET dx == to[1] - from[1]
             dy == to[2] - from[2]
             k  == LenScale \div Scale
         IN  Sqrt((dx * dx + dy * dy) * k * k)

\* a + b on lengths
AddLen(a, b) == IF a = NaN \/ b = NaN THEN NaN ELSE a + b

\* mirror with dx, dy given: the matrix is the same for every positive multiple
\* of (dx, dy), and the quotients by dx^2 + dy^2 are taken once, at the end
MirrorAlong(p, i, ex, ey) ==
    << RoundDiv((ex * ex - ey * ey) * (p[1] - i[1][1]) + 2 * ex * ey * (p[2] - i[1][2]),
                ex * ex + ey * ey) + i[1][1],
       RoundDiv(2 * ex * ey * (p[1] - i[1][1]) - (ex * ex - ey * ey) * (p[2] - i[1][2]),
                ex * ex + ey * ey) + i[1][2] >>

MirrorBy(p, i, dx, dy) ==
    IF IsNaNPt(p) \/ (dx = 0 /\ dy = 0) THEN NaNPt          \* 0.0 / 0.0
    ELSE MirrorAlong(p, i, dx \div Gcd(Abs(dx), Abs(dy)), dy \div Gcd(Abs(dx), Abs(dy)))

mirror(p, i) == MirrorBy(p, i, i[2][1] - i[1][1], i[2][2] - i[1][2])

\* a * b is -0.0: one factor is +0.0 and the other is negative
NegZero(a, b) == (a = 0 /\ b < 0) \/ (a < 0 /\ b = 0)

\* lr_num / denom compared with 0 and 1: "neg" (x < 0), "big" (x > 1), "mid"
\* (neither, NaN included); denom is p1a * p1b - p2a * p2b
QuotientBy(lr_num, denom, negz) ==
    IF denom = 0
    THEN IF lr_num = 0 THEN "mid"                           \* NaN
         ELSE IF (lr_num < 0) = negz THEN "big" ELSE "neg"  \* an infinity
    ELSE IF Sgn(lr_num) * Sgn(denom) < 0 THEN "neg"
    ELSE IF Abs(lr_num) > Abs(denom) THEN "big"
    ELSE "mid"

Quotient(lr_num, p1a, p1b, p2a, p2b) ==
    QuotientBy(lr_num, p1a * p1b - p2a * p2b,
               p1a * p1b = 0 /\ NegZero(p1a, p1b) /\ ~NegZero(p2a, p2b))

\* `to` as heuristic and turning_on see it: mirrored when it is on r's side of i
GoalSeen(r, to, i) == IF on_side(r, i) = on_side(to, i) THEN mirror(to, i) ELSE to

\* the match of heuristic on lr_num / denom
HeuristicMatch(r, to, i, x) ==
    CASE x = "neg" -> AddLen(distance_between(r, i[1]), distance_between(i[1], to))
      [] x = "big" -> AddLen(distance_between(r, i[2]), distance_between(i[2], to))
      [] OTHER     -> distance_between(r, to)

\* heuristic after the mirroring
HeuristicTo(r, to, i) ==
    IF r = i[1] \/ r = i[2] THEN distance_between(r, to)
    ELSE IF IsNaNPt(to) THEN NaN
    ELSE HeuristicMatch(r, to, i,
             Quotient((to[1] - i[1][1]) * (r[2] - i[1][2])           \* lgoal x lroot
                        - (to[2] - i[1][2]) * (r[1] - i[1][1]),
                      to[1] - r[1], i[2][2] - i[1][2],               \* rootgoal[0], lr[1]
                      to[2] - r[2], i[2][1] - i[1][1]))              \* rootgoal[1], lr[0]

heuristic(r, to, i) == HeuristicTo(r, GoalSeen(r, to, i), i)

\* Option<[f32; 2]>: << >> is None, <<p>> is Some(p)
None == << >>
Some(p) == << p >>

\* turning_on after the mirroring
\* a turning_on without the test of r against i[0]
TurningToAlways(r, to, i) ==
    IF on_side(to, <<r, i[1]>>) = "Right" THEN Some(i[1])
    ELSE IF on_side(to, <<r, i[2]>>) = "Left" THEN Some(i[2])
    ELSE None

TurningTo(r, to, i) ==
    IF r = i[1] THEN None
    ELSE IF on_side(to, <<r, i[1]>>) = "Right" THEN Some(i[1])
    ELSE IF on_side(to, <<r, i[2]>>) = "Left" THEN Some(i[2])
    ELSE None

turning_on(r, to, i) == TurningTo(r, GoalSeen(r, to, i), i)

\* segment[0] + u * (segment[1] - segment[0]) for u = n / d in lowest terms
PointAt(segment, n, d) ==
    << segment[1][1] + RoundDiv(n * (segment[2][1] - segment[1][1]), d),
       segment[1][2] + RoundDiv(n * (segment[2][2] - segment[1][2]), d) >>

\* line_intersect_segment for u = num / den
IntersectBy(segment, num, den) ==
    IF den = 0 THEN None                                    \* u is NaN or infinite
    ELSE IF Sgn(num) * Sgn(den) < 0 \/ Abs(num) > Abs(den) THEN None
    ELSE Some(PointAt(segment, Abs(num) \div Gcd(Abs(num), Abs(den)),
                      Abs(den) \div Gcd(Abs(num), Abs(den))))

line_intersect_segment(line, segment) ==
    IntersectBy(segment,
        (line[1][1] - segment[1][1]) * (line[1][2] - line[2][2])
          - (line[1][2] - segment[1][2]) * (line[1][1] - line[2][1]),
        (line[1][1] - line[2][1]) * (segment[1][2] - segment[2][2])
          - (line[1][2] - line[2][2]) * (segment[1][1] - segment[2][1]))

(***************************************************************************)
(* lib.rs: the mesh                                                        *)
(***************************************************************************)
\* Vertex::new(x, y, poly)
Vertex_new(x, y, poly) ==
    [ p         |-> << x * Scale, y * Scale >>,
      polygons  |-> poly,
      is_corner |-> \E k \in 1..Len(poly) : poly[k] = -1 ]

\* a loop that gives up at the first neighbour that is not -1
OneWayEager(neighbours, k, found_trav) ==
    \A j \in k..Len(neighbours) : neighbours[j] = -1

\* Polygon::new, lines 76-87: the loop over the neighbours from the k-th on;
\* the value is is_one_way when the loop is left
RECURSIVE OneWayFrom(_, _, _)
OneWayFrom(neighbours, k, found_trav) ==
    IF k > Len(neighbours) THEN TRUE
    ELSE IF neighbours[k] # -1
         THEN IF found_trav THEN FALSE
                            ELSE OneWayFrom(neighbours, k + 1, TRUE)
         ELSE OneWayFrom(neighbours, k + 1, found_trav)

\* Polygon::new(nb, data) for data of 2 * nb entries (line 72 asserts it)
Polygon_new(nb, data) ==
    [ vertices   |-> SubSeq(data, 1, nb),
      is_one_way |-> OneWayFrom(SubSeq(data, nb + 1, 2 * nb), 1, FALSE) ]

\* Polygon::edges_index
edges_index(polygon) ==
    LET n == Len(polygon.vertices)
    IN  [ k \in 1..n |-> << polygon.vertices[k], polygon.vertices[(k % n) + 1] >> ]

\* Polygon::double_edges_index
double_edges_index(polygon) == edges_index(polygon) \o edges_index(polygon)

\* tests::mesh_u_grid
mesh_u_grid ==
    [ vertices |-> <<
        Vertex_new(0, 0, <<0, -1>>),
        Vertex_new(1, 0, <<0, 1, -1>>),
        Vertex_new(2, 0, <<1, 2, -1>>),
        Vertex_new(3, 0, <<2, -1>>),
        Vertex_new(0, 1, <<3, 0, -1>>),
        Vertex_new(1, 1, <<3, 1, 0, -1>>),
        Vertex_new(2, 1, <<4, 2, 1, -1>>),
        Vertex_new(3, 1, <<4, 2, -1>>),
        Vertex_new(0, 2, <<3, -1>>),
        Vertex_new(1, 2, <<3, -1>>),
        Vertex_new(2, 2, <<4, -1>>),
        Vertex_new(3, 2, <<4, -1>> ) >>,
      polygons |-> <<
        Polygon_new(4, <<0, 1, 5, 4, -1, 1, 3, -1>>),
        Polygon_new(4, <<1, 2, 6, 5, -1, 2, -1, 0>>),
        Polygon_new(4, <<2, 3, 7, 6, -1, -1, 4, 1>>),
        Polygon_new(4, <<4, 5, 9, 8, 0, -1, -1, -1>>),
        Polygon_new(4, <<6, 7, 11, 10, 2, -1, -1, -1>>) >> ]

\* tests::mesh_from_paper
mesh_from_paper ==
    [ vertices |-> <<
        Vertex_new(0, 6, <<0, -1>>),
        Vertex_new(2, 5, <<0, -1, 2>>),
        Vertex_new(5, 7, <<0, 2, -1>>),
        Vertex_new(5, 8, <<0, -1>>),
        Vertex_new(0, 8, <<0, -1>>),
        Vertex_new(1, 4, <<1, -1>>),
        Vertex_new(2, 1, <<1, -1>>),
        Vertex_new(4, 1, <<1, -1>>),
        Vertex_new(4, 2, <<1, -1, 2>>),
        Vertex_new(2, 4, <<1, 2, -1>>),
        Vertex_new(7, 4, <<2, -1, 4>>),
        Vertex_new(10, 7, <<2, 4, 6, -1, 3>>),
        Vertex_new(7, 7, <<2, 3, -1>>),
        Vertex_new(11, 8, <<3, -1>>),
        Vertex_new(7, 8, <<3, -1>>),
        Vertex_new(7, 0, <<5, 4, -1>>),
        Vertex_new(11, 3, <<4, 5, -1>>),
        Vertex_new(11, 5, <<4, -1, 6>>),
        Vertex_new(12, 0, <<5, -1>>),
        Vertex_new(12, 3, <<5, -1>>),
        Vertex_new(13, 5, <<6, -1>>),
        Vertex_new(13, 7, <<6, -1>>),
        Vertex_new(1, 3, <<1, -1>>) >>,
      polygons |-> <<
        Polygon_new(5, <<0, 1, 2, 3, 4, -1, -1, 2, -1, -1>>),
        Polygon_new(6, <<5, 22, 6, 7, 8, 9, -1, -1, -1, -1, 2, -1>>),
        Polygon_new(7, <<1, 9, 8, 10, 11, 12, 2, -1, 1, -1, 4, 3, -1, 0>>),
        Polygon_new(4, <<12, 11, 13, 14, 2, -1, -1, -1>>),
        Polygon_new(5, <<10, 15, 16, 17, 11, -1, 5, -1, 6, 2>>),
        Polygon_new(4, <<15, 18, 19, 16, -1, -1, -1, 4>>),
        Polygon_new(4, <<11, 17, 20, 21, 4, -1, -1, -1>>) >> ]

\* A ring of eight unit cells around a missing centre cell (a 3 x 3 grid without
\* its middle): the polygons form a cycle around an obstacle.
mesh_ring ==
    [ vertices |-> <<
        Vertex_new(0, 0, <<-1, 0>>),
        Vertex_new(1, 0, <<-1, 1, 0>>),
        Vertex_new(2, 0, <<-1, 2, 1>>),
        Vertex_new(3, 0, <<-1, 2>>),
        Vertex_new(0, 1, <<-1, 0, 3>>),
        Vertex_new(1, 1, <<0, 1, -1, 3>>),
        Vertex_new(2, 1, <<1, 2, 4, -1>>),
        Vertex_new(3, 1, <<2, -1, 4>>),
        Vertex_new(0, 2, <<-1, 3, 5>>),
        Vertex_new(1, 2, <<3, -1, 6, 5>>),
        Vertex_new(2, 2, <<-1, 4, 7, 6>>),
        Vertex_new(3, 2, <<4, -1, 7>>),
        Vertex_new(0, 3, <<-1, 5>>),
        Vertex_new(1, 3, <<5, 6, -1>>),
        Vertex_new(2, 3, <<6, 7, -1>>),
        Vertex_new(3, 3, <<7, -1>>) >>,
      polygons |-> <<
        Polygon_new(4, <<0, 1, 5, 4, -1, 1, 3, -1>>),
        Polygon_new(4, <<1, 2, 6, 5, -1, 2, -1, 0>>),
        Polygon_new(4, <<2, 3, 7, 6, -1, -1, 4, 1>>),
        Polygon_new(4, <<4, 5, 9, 8, 0, -1, 5, -1>>),
        Polygon_new(4, <<6, 7, 11, 10, 2, -1, 7, -1>>),
        Polygon_new(4, <<8, 9, 13, 12, 3, 6, -1, -1>>),
        Polygon_new(4, <<9, 10, 14, 13, -1, 7, -1, 5>>),
        Polygon_new(4, <<10, 11, 15, 14, 4, -1, -1, 6>>) >> ]

\* A hall of four by three unit cells around a missing cell, the second of the
\* middle row: the ways around the obstacle have different lengths.
mesh_hall ==
    [ vertices |-> <<
        Vertex_new(0, 0, <<-1, 0>>),
        Vertex_new(1, 0, <<-1, 1, 0>>),
        Vertex_new(2, 0, <<-1, 2, 1>>),
        Vertex_new(3, 0, <<-1, 3, 2>>),
        Vertex_new(4, 0, <<-1, 3>>),
        Vertex_new(0, 1, <<-1, 0, 4>>),
        Vertex_new(1, 1, <<0, 1, -1, 4>>),
        Vertex_new(2, 1, <<1, 2, 5, -1>>),
        Vertex_new(3, 1, <<2, 3, 6, 5>>),
        Vertex_new(4, 1, <<3, -1, 6>>),
        Vertex_new(0, 2, <<-1, 4, 7>>),
        Vertex_new(1, 2, <<4, -1, 8, 7>>),
        Vertex_new(2, 2, <<-1, 5, 9, 8>>),
        Vertex_new(3, 2, <<5, 6, 10, 9>>),
        Vertex_new(4, 2, <<6, -1, 10>>),
        Vertex_new(0, 3, <<-1, 7>>),
        Vertex_new(1, 3, <<7, 8, -1>>),
        Vertex_new(2, 3, <<8, 9, -1>>),
        Vertex_new(3, 3, <<9, 10, -1>>),
        Vertex_new(4, 3, <<10, -1>>) >>,
      polygons |-> <<
        Polygon_new(4, <<0, 1, 6, 5, -1, 1, 4, -1>>),
        Polygon_new(4, <<1, 2, 7, 6, -1, 2, -1, 0>>),
        Polygon_new(4, <<2, 3, 8, 7, -1, 3, 5, 1>>),
        Polygon_new(4, <<3, 4, 9, 8, -1, -1, 6, 2>>),
        Polygon_new(4, <<5, 6, 11, 10, 0, -1, 7, -1>>),
        Polygon_new(4, <<7, 8, 13, 12, 2, 6, 9, -1>>),
        Polygon_new(4, <<8, 9, 14, 13, 3, -1, 10, 5>>),
        Polygon_new(4, <<10, 11, 16, 15, 4, 8, -1, -1>>),
        Polygon_new(4, <<11, 12, 17, 16, -1, 9, -1, 7>>),
        Polygon_new(4, <<12, 13, 18, 17, 5, 10, -1, 8>>),
        Polygon_new(4, <<13, 14, 19, 18, 6, -1, -1, 9>>) >> ]

\* Vertex::new(x2 / 2.0, y2 / 2.0, poly)
VertexHalf(x2, y2, poly) ==
    [ p         |-> << x2 * (Scale \div 2), y2 * (Scale \div 2) >>,
      polygons  |-> poly,
      is_corner |-> \E k \in 1..Len(poly) : poly[k] = -1 ]

\* Two by two cells of half a unit: the edges are short enough for on_side to
\* answer Edge for a point that is 0.01 off an edge, and the middle vertex is
\* no corner.
mesh_fine ==
    [ vertices |-> <<
        VertexHalf(0, 0, <<-1, 0>>),
        VertexHalf(1, 0, <<-1, 1, 0>>),
        VertexHalf(2, 0, <<-1, 1>>),
        VertexHalf(0, 1, <<-1, 0, 2>>),
        VertexHalf(1, 1, <<0, 1, 3, 2>>),
        VertexHalf(2, 1, <<1, -1, 3>>),
        VertexHalf(0, 2, <<-1, 2>>),
        VertexHalf(1, 2, <<2, 3, -1>>),
        VertexHalf(2, 2, <<3, -1>>) >>,
      polygons |-> <<
        Polygon_new(4, <<0, 1, 4, 3, -1, 1, 2, -1>>),
        Polygon_new(4, <<1, 2, 5, 4, -1, -1, 3, 0>>),
        Polygon_new(4, <<3, 4, 7, 6, 0, 3, -1, -1>>),
        Polygon_new(4, <<4, 5, 8, 7, 1, -1, -1, 2>>) >> ]

\* the meshes a query is run on
Meshes == << mesh_u_grid, mesh_from_paper, mesh_ring, mesh_hall, mesh_fine >>

\* self.vertices.get(v).unwrap() and self.polygons.get(p).unwrap()
VertexAt(mesh, v) == mesh.vertices[v + 1]
PolygonAt(mesh, p) == mesh.polygons[p + 1]
\* [[last.x, last.y], [next.x, next.y]] of an edge given by its vertex indices
EdgePoints(mesh, edge) == << VertexAt(mesh, edge[1]).p, VertexAt(mesh, edge[2]).p >>

\* the edge loop of point_in_polygon_unit for polygon number n, from edge k on:
\* TRUE when the polygon is returned
RECURSIVE InPolygonFrom(_, _, _, _)
InPolygonFrom(mesh, point, n, k) ==
    LET edges == edges_index(PolygonAt(mesh, n))
    IN  IF k > Len(edges) THEN TRUE
        ELSE LET e == EdgePoints(mesh, edges[k])
             IN  IF on_segment(point, e) THEN TRUE
                 ELSE IF on_side(point, e) # "Left" THEN FALSE
                 ELSE InPolygonFrom(mesh, point, n, k + 1)

RECURSIVE PolygonUnitFrom(_, _, _)
PolygonUnitFrom(mesh, point, n) ==
    IF n >= Len(mesh.polygons) THEN UsizeMax
    ELSE IF InPolygonFrom(mesh, point, n, 1) THEN n
    ELSE PolygonUnitFrom(mesh, point, n + 1)

point_in_polygon_unit(mesh, point) == PolygonUnitFrom(mesh, point, 0)

\* let delta = 0.1
Delta == 10
Offsets ==
    << <<0, 0>>, <<Delta, 0>>, <<Delta, Delta>>, <<0, Delta>>, <<-Delta, Delta>>,
       <<-Delta, 0>>, <<-Delta, -Delta>>, <<0, -Delta>>, <<Delta, -Delta>> >>

RECURSIVE PolygonFromOffset(_, _, _)
PolygonFromOffset(mesh, point, k) ==
    IF k > Len(Offsets) THEN UsizeMax
    ELSE LET poly == point_in_polygon_unit(mesh,
                        << point[1] + Offsets[k][1], point[2] + Offsets[k][2] >>)
         IN  IF poly # UsizeMax THEN poly
             ELSE PolygonFromOffset(mesh, point, k + 1)

point_in_polygon(mesh, point) == PolygonFromOffset(mesh, point, 1)

point_in_mesh(mesh, point) == point_in_polygon(mesh, point) # UsizeMax

(***************************************************************************)
(* lib.rs: the search                                                      *)
(***************************************************************************)
\* enum SuccessorType
RightNonObservable == "RightNonObservable"
Observable == "Observable"
LeftNonObservable == "LeftNonObservable"

\* 1.0e-3 and 1.0e-5 as lengths: two distinct grid points are at least ten
\* length units apart, so "> 1.0e-3" is "> Eps3" and "< 1.0e-5" is "<= Eps5"
Eps3 == 1
Eps5 == 0

\* the polygon on the other side of an edge of polygon `this`: the last entry of
\* start.polygons that is neither -1 nor `this` and is also in end.polygons
RECURSIVE OtherSideFrom(_, _, _, _, _)
OtherSideFrom(start, end, this, k, acc) ==
    IF k > Len(start.polygons) THEN acc
    ELSE LET i == start.polygons[k]
         IN  OtherSideFrom(start, end, this, k + 1,
                 IF /\ i # -1
                    /\ i # this
                    /\ \E j \in 1..Len(end.polygons) : end.polygons[j] = i
                 THEN i ELSE acc)

other_side_of(mesh, edge, this) ==
    OtherSideFrom(VertexAt(mesh, edge[1]), VertexAt(mesh, edge[2]), this, 1, IsizeMax)

\* the position (0-based) of vertex v in polygon.vertices, searched from temp on
RECURSIVE IndexOfVertex(_, _, _)
IndexOfVertex(polygon, v, temp) ==
    IF polygon.vertices[temp + 1] # v THEN IndexOfVertex(polygon, v, temp + 1)
    ELSE temp

\* The body of the edge loop of edges_between, in its three parts.  Each part
\* gives the successors it pushes and the value it leaves in ty (and start_p).

\* lines 435-481: the match on the side of start against the right ray
RightPart(start, end, ty, sideS, inter, endOnRight) ==
    CASE sideS = "Right" ->
           IF inter = None THEN [pushed |-> << >>, start_p |-> start, ty |-> ty]
           ELSE [ pushed  |-> IF /\ distance_between(inter[1], start) > Eps3
                                 /\ distance_between(inter[1], end) > Eps3
                              THEN << [interval |-> <<start, inter[1]>>, ty |-> ty] >>
                              ELSE << >>,
                  start_p |-> IF /\ distance_between(inter[1], start) > Eps3
                                 /\ distance_between(inter[1], end) > Eps3
                              THEN inter[1] ELSE start,
                  ty      |-> IF distance_between(inter[1], end) > Eps3
                              THEN Observable ELSE ty ]
      [] sideS = "Left" ->
           [ pushed |-> << >>, start_p |-> start,
             ty |-> IF ty = RightNonObservable THEN Observable ELSE ty ]
      [] OTHER ->
           [ pushed |-> << >>, start_p |-> start,
             ty |-> IF endOnRight \in {"Edge", "Left"} THEN Observable ELSE ty ]

\* lines 482-509: end_intersection_p, None or Some
EndIntersection(end, sideE, inter) ==
    IF sideE = "Left" /\ inter # None /\ distance_between(inter[1], end) > Eps3
    THEN inter ELSE None

\* lines 510-535: the middle successor, the new ty, the last successor
LeftPart(start_p, end, ty, sideE, found_intersection, end_intersection_p, endOnRight, ty2) ==
    [ pushed |-> << [interval |-> << start_p, IF end_intersection_p # None
                                              THEN end_intersection_p[1] ELSE end >>,
                     ty |-> ty] >>
                 \o (IF sideE = "Left" /\ end_intersection_p # None
                     THEN << [interval |-> <<end_intersection_p[1], end>>, ty |-> ty2] >>
                     ELSE << >>),
      ty |-> ty2 ]

\* the value of ty after lines 515-535
TyAfterLeft(ty, sideE, found_intersection, endOnRight) ==
    CASE sideE = "Left" -> IF found_intersection THEN LeftNonObservable ELSE ty
      [] sideE = "Edge" -> IF endOnRight \in {"Edge", "Left"} THEN LeftNonObservable ELSE ty
      [] OTHER -> ty

LeftOf(right, end, sideE, inter, endOnRight) ==
    LeftPart(right.start_p, end, right.ty, sideE, inter # None,
             EndIntersection(end, sideE, inter), endOnRight,
             TyAfterLeft(right.ty, sideE, inter # None, endOnRight))

\* both parts; the successors carry the edge
WithEdge(pushed, edge) ==
    [ k \in 1..Len(pushed) |->
        [interval |-> pushed[k].interval, edge |-> edge, ty |-> pushed[k].ty] ]

Joined(right, left, edge) ==
    [successors |-> WithEdge(right.pushed \o left.pushed, edge), ty |-> left.ty]

EdgeStepOn(start, end, rayR, rayL, edge, ty) ==
    Joined(RightPart(start, end, ty, on_side(start, rayR),
                     IF on_side(start, rayR) = "Right"
                     THEN line_intersect_segment(rayR, <<start, end>>) ELSE None,
                     on_side(end, rayR)),
           LeftOf(RightPart(start, end, ty, on_side(start, rayR),
                            IF on_side(start, rayR) = "Right"
                            THEN line_intersect_segment(rayR, <<start, end>>) ELSE None,
                            on_side(end, rayR)),
                  end, on_side(end, rayL),
                  IF on_side(end, rayL) = "Left"
                  THEN line_intersect_segment(rayL, <<start, end>>) ELSE None,
                  on_side(end, rayR)),
           edge)

\* One pass of the body of the edge loop of edges_between: the successors it
\* pushes and the value of ty it leaves.
EdgeStep(mesh, node, edge, ty) ==
    EdgeStepOn(VertexAt(mesh, edge[1]).p, VertexAt(mesh, edge[2]).p,
               << node.r, node.i[1] >>, << node.r, node.i[2] >>, edge, ty)

RECURSIVE EdgesLoop(_, _, _, _, _, _)
EdgesFrom(mesh, node, edges, k, last, step) ==
    step.successors \o EdgesLoop(mesh, node, edges, k + 1, last, step.ty)

EdgesLoop(mesh, node, edges, k, last, ty) ==
    IF k > last THEN << >>
    ELSE EdgesFrom(mesh, node, edges, k, last, EdgeStep(mesh, node, edges[k], ty))

\* an edges_between whose loop goes once around the whole polygon
EdgesBetweenAround(mesh, node, polygon, right_index) ==
    EdgesLoop(mesh, node, double_edges_index(polygon), right_index + 1,
              (Len(polygon.vertices) + right_index - 1) + 1, RightNonObservable)

\* edges_between, lines 412-415: the edges right_index..=left_index of
\* double_edges_index, with ty starting as RightNonObservable
EdgesBetweenFrom(mesh, node, polygon, right_index) ==
    EdgesLoop(mesh, node, double_edges_index(polygon), right_index + 1,
              (Len(polygon.vertices) + right_index - 1 - 1) + 1, RightNonObservable)

\* SearchInstance::edges_between
edges_between(mesh, node) ==
    EdgesBetweenFrom(mesh, node, PolygonAt(mesh, node.polygon_to),
        IndexOfVertex(PolygonAt(mesh, node.polygon_to), node.i_index[2], 0) + 1)

\* an Ord that is not reversed: the heap would give the greatest f + g first
SearchNodeCmpForward(a, b) ==
    IF a.f + a.g < b.f + b.g THEN "Less"
    ELSE IF a.f + a.g = b.f + b.g THEN "Equal"
    ELSE "Greater"

\* impl Ord for SearchNode: "Less", "Equal" or "Greater", reversed on f + g
SearchNodeCmp(a, b) ==
    IF a.f + a.g < b.f + b.g THEN "Greater"
    ELSE IF a.f + a.g = b.f + b.g THEN "Equal"
    ELSE "Less"

\* impl Hash for Root, lines 146-147: (x * 10000.0) as i32 for a coordinate x
\* given in units of 1 / scale; the cast truncates toward zero and takes NaN
\* to 0
Hashed(x, scale) ==
    IF x = NaN THEN 0 ELSE Sgn(x) * ((Abs(x) * 10000) \div scale)

\* impl Hash for Root: the pair that is hashed
RootHashedAt(p, scale) == << Hashed(p[1], scale), Hashed(p[2], scale) >>

\* the pair that is hashed for a root in the units of the meshes
RootHashed(p) == RootHashedAt(p, Scale)

\* impl PartialEq for Root, lines 135-140
RootEq(a, b) == a = b

\* HashMap::entry(Root(root)) on root_history is Occupied: a key of the hash
\* of root is equal to root
RootHistoryHasAt(root_history, root, scale) ==
    \E k \in DOMAIN root_history :
        /\ RootHashedAt(k, scale) = RootHashedAt(root, scale)
        /\ RootEq(k, root)

\* In the operators below si is the part of a SearchInstance that add_node
\* changes (node_buffer, root_history) with the number of SearchNode values
\* constructed so far (created).  root_history is a function from roots (Root
\* compares the two f32 exactly) to f.
RootHistoryHas(root_history, root) == RootHistoryHasAt(root_history, root, Scale)

\* a match that keeps the node only when it is strictly better
RootHistoryAdmitsBetter(root_history, root, f) ==
    IF RootHistoryHas(root_history, root) THEN root_history[root] > f ELSE TRUE

\* the match on self.root_history.entry(Root(root)): TRUE when the node is kept
RootHistoryAdmits(root_history, root, f) ==
    IF RootHistoryHas(root_history, root) THEN ~(root_history[root] < f) ELSE TRUE

\* what is recorded in root_history for root, if anything
Recorded(root_history, root) ==
    IF RootHistoryHas(root_history, root) THEN Some(root_history[root]) ELSE None

\* history: the search instance `after` with a note of what the match of lines
\* 607-631 did for new_node when it found the search instance `before`
Matched(before, after, root, new_node) ==
    [after EXCEPT !.matched = Append(@,
        [ root     |-> root,
          f        |-> new_node.f,
          recorded |-> Recorded(before.root_history, root),
          buffered |-> after.node_buffer = Append(before.node_buffer, new_node),
          left     |-> Recorded(after.root_history, root) ])]

\* an add_node that goes to the match whatever f and g are
AddBuiltNaN(si, root, new_node) ==
    IF RootHistoryAdmits(si.root_history, root, new_node.f)
    THEN Matched(si, [si EXCEPT !.root_history = (root :> new_node.f) @@ si.root_history,
                                !.node_buffer  = Append(si.node_buffer, new_node)],
                 root, new_node)
    ELSE Matched(si, si, root, new_node)

\* add_node from line 598 on, with new_node built
AddBuilt(si, root, new_node) ==
    IF new_node.f = NaN \/ new_node.g = NaN THEN si
    ELSE IF RootHistoryAdmits(si.root_history, root, new_node.f)
    THEN Matched(si, [si EXCEPT !.root_history = (root :> new_node.f) @@ si.root_history,
                                !.node_buffer  = Append(si.node_buffer, new_node)],
                 root, new_node)
    ELSE Matched(si, si, root, new_node)

\* a new node that takes its parent's path as it is
NewNodeKeepingPath(to, root, other_side, start, end, node) ==
    [ path         |-> node.path,
      r            |-> root,
      i            |-> << start[1], end[1] >>,
      i_index      |-> << start[2], end[2] >>,
      polygon_from |-> node.polygon_to,
      polygon_to   |-> other_side,
      f            |-> AddLen(node.f, distance_between(node.r, root)),
      g            |-> heuristic(root, to, << start[1], end[1] >>) ]

\* add_node, lines 582-597: the node that is built
NewNode(to, root, other_side, start, end, node) ==
    [ path         |-> IF root # node.r THEN Append(node.path, node.r)
                       ELSE node.path,
      r            |-> root,
      i            |-> << start[1], end[1] >>,
      i_index      |-> << start[2], end[2] >>,
      polygon_from |-> node.polygon_to,
      polygon_to   |-> other_side,
      f            |-> AddLen(node.f, distance_between(node.r, root)),
      g            |-> heuristic(root, to, << start[1], end[1] >>) ]

\* an add_node without the dead end pruning
add_node_to_dead_end(mesh, to, polygon_to, si, root, other_side, start, end, node) ==
    IF other_side = IsizeMax THEN si
    ELSE AddBuilt([si EXCEPT !.created = @ + 1], root,
                  NewNode(to, root, other_side, start, end, node))

\* SearchInstance::add_node
add_node(mesh, to, polygon_to, si, root, other_side, start, end, node) ==
    IF other_side = IsizeMax THEN si                      \* cul de sac
    ELSE IF polygon_to # other_side /\ PolygonAt(mesh, other_side).is_one_way
    THEN si                                               \* dead end
    ELSE AddBuilt([si EXCEPT !.created = @ + 1], root,
                  NewNode(to, root, other_side, start, end, node))

\* a successors() that takes the end of the node's interval for the root of a
\* non-observable successor wherever the successor and that end lie
SuccessorRootOffCorner(mesh, node, successor) ==
    CASE successor.ty = RightNonObservable -> Some(node.i[1])
      [] successor.ty = Observable -> Some(node.r)
      [] OTHER -> Some(node.i[2])

\* the root of a successor of node; None when the successor is skipped (continue)
SuccessorRoot(mesh, node, successor) ==
    LET start == VertexAt(mesh, successor.edge[1])
        end   == VertexAt(mesh, successor.edge[2])
    IN  CASE successor.ty = RightNonObservable ->
               IF distance_between(successor.interval[1], start.p) > Eps5 THEN None
               ELSE LET vertex == VertexAt(mesh, node.i_index[1])
                    IN  IF vertex.is_corner /\ distance_between(vertex.p, node.i[1]) <= Eps5
                        THEN Some(node.i[1]) ELSE None
          [] successor.ty = Observable -> Some(node.r)
          [] OTHER ->
               IF distance_between(successor.interval[2], end.p) > Eps5 THEN None
               ELSE LET vertex == VertexAt(mesh, node.i_index[2])
                    IN  IF vertex.is_corner /\ distance_between(vertex.p, node.i[2]) <= Eps5
                        THEN Some(node.i[2]) ELSE None

\* the body of the for loop of successors() for one successor
SuccessorStep(mesh, to, polygon_to, si, node, successor, root) ==
    IF root = None THEN si
    ELSE add_node(mesh, to, polygon_to, si, root[1],
             other_side_of(mesh, successor.edge, node.polygon_to),
             << successor.interval[1], successor.edge[1] >>,
             << successor.interval[2], successor.edge[2] >>,
             node)

\* the for loop of successors(): add_node for every successor from the k-th on
RECURSIVE SuccessorsLoop(_, _, _, _, _, _, _)
SuccessorsLoop(mesh, to, polygon_to, si, node, succs, k) ==
    IF k > Len(succs) THEN si
    ELSE SuccessorsLoop(mesh, to, polygon_to,
             SuccessorStep(mesh, to, polygon_to, si, node, succs[k],
                           SuccessorRoot(mesh, node, succs[k])),
             node, succs, k + 1)

\* the seeding loop of path(): add_node for every edge of the starting polygon
RECURSIVE SeedLoop(_, _, _, _, _, _, _, _)
SeedLoop(mesh, from, to, polygon_to, si, empty_node, edges, k) ==
    IF k > Len(edges) THEN si
    ELSE SeedLoop(mesh, from, to, polygon_to,
             add_node(mesh, to, polygon_to, si, from,
                 other_side_of(mesh, edges[k], empty_node.polygon_to),
                 << VertexAt(mesh, edges[k][1]).p, edges[k][1] >>,
                 << VertexAt(mesh, edges[k][2]).p, edges[k][2] >>,
                 empty_node),
             empty_node, edges, k + 1)

\* a reconstruction that keeps the first element of node.path
ReconstructWhole(from, to, next) ==
    Append((IF next.r # from THEN Append(next.path, next.r) ELSE next.path)
             \o (IF turning_on(next.r, to, next.i) # None
                 THEN << turning_on(next.r, to, next.i)[1] >> ELSE << >>),
           to)

\* path(), lines 315-318: the turn of turning_on, if any, then `to`
WithTurn(path, turn, to) ==
    Append(IF turn # None THEN Append(path, turn[1]) ELSE path, to)

\* path(), lines 306-318: the turn points of the popped goal node
Reconstruct(from, to, next) ==
    WithTurn((IF next.path = << >> THEN << >> ELSE Tail(next.path))
                \o (IF next.r # from THEN << next.r >> ELSE << >>),
             turning_on(next.r, to, next.i), to)

\* seq without its k-th element
RemoveAt(seq, k) == SubSeq(seq, 1, k - 1) \o SubSeq(seq, k + 1, Len(seq))

(***************************************************************************)
(* The queries that are run: a mesh and two points of its candidate list.  *)
(***************************************************************************)
\* how many of a mesh's candidate points are used as `from` and as `to`
NPts == 9
\* how many steps (pops and passes of the loop of successors) a query may take
MaxSteps == 40
\* how many calls of path() are made on one mesh, one after the other
MaxQueries == 3

CandidatePoints ==
    << \* mesh_u_grid
       << <<10, 190>>, <<210, 190>>, <<10, 10>>, <<290, 90>>, <<250, 150>>,
          <<100, 0>>, <<150, 150>>, <<310, 50>>, <<50, 100>>, <<150, 50>>,
          <<200, 100>>, <<300, 200>> >>,
       \* mesh_from_paper
       << <<1200, 0>>, <<300, 100>>, <<700, 690>>, <<1300, 600>>, <<500, 300>>,
          <<0, 700>>, <<700, 800>>, <<0, 0>>, <<1300, 500>>, <<1000, 700>>,
          <<900, 300>>, <<400, 750>>, <<200, 300>> >>,
       \* mesh_ring
       << <<100, 0>>, <<200, 250>>, <<50, 50>>, <<250, 250>>, <<150, 150>>,
          <<50, 250>>, <<250, 50>>, <<150, 250>>, <<110, 310>>, <<100, 300>>,
          <<300, 100>>, <<150, 0>> >>,
       \* mesh_hall
       << <<350, 200>>, <<150, 150>>, <<50, 50>>, <<250, 250>>, <<400, 0>>,
          <<150, 300>> >>,
       \* mesh_fine
       << <<0, 30>>, <<99, 49>>, <<80, 80>> >> >>

QueryPoints(m) ==
    { CandidatePoints[m][k] : k \in 1..MinI(NPts, Len(CandidatePoints[m])) }

VARIABLES
    m,             \* the mesh of the query, an index of Meshes
    from, to,      \* the arguments of path()
    pc,            \* "start", "pop" (head of the while loop), "successors" (head of
                   \* the loop of successors()), "done" (returned), "panic"
    polygon_to,    \* search_instance.polygon_to
    queue,         \* search_instance.queue: the nodes of the heap, in no order
    node_buffer,   \* search_instance.node_buffer
    root_history,  \* search_instance.root_history
    node,          \* the node successors() is working on
    result,        \* the Path returned: [len, path]
    created,       \* history: how many SearchNode values were constructed
    popped,        \* history: the nodes popped, in order
    popped_from,   \* history: the queue the last node was popped from
    expanded,      \* history: the nodes given to edges_between, in order
    steps,         \* pops and passes of the loop of successors() so far
    queries,       \* history: how many calls of path() on this mesh have returned
    first,         \* history: the arguments and the result of the first of them
    matched,       \* history: what add_node's match on root_history did, call by
                   \* call
    promoted,      \* history: the nodes successors() took from the buffer as its
                   \* next node, in order
    call,          \* a function called on its own: its name and arguments
    returned       \* what that function returned

vars == << m, from, to, pc, polygon_to, queue, node_buffer, root_history, node,
           result, created, popped, popped_from, expanded, steps, queries, first,
           call, returned, matched, promoted >>

NoNode == [r |-> NaNPt]
NoResult == [len |-> NaN, path |-> << >>]
NoCall == [fn |-> "none"]
NoReturn == [none |-> TRUE]
NoQuery == [from |-> NaNPt, to |-> NaNPt, result |-> NoResult]
Mesh == Meshes[m]

\* no query is running: the state of the functions that are called on their own
NoSearch ==
    /\ m = 1
    /\ from = NaNPt
    /\ to = NaNPt
    /\ pc = "none"
    /\ polygon_to = 0
    /\ queue = << >>
    /\ node_buffer = << >>
    /\ root_history = << >>
    /\ node = NoNode
    /\ result = NoResult
    /\ created = 0
    /\ popped = << >>
    /\ popped_from = << >>
    /\ expanded = << >>
    /\ steps = 0
    /\ queries = 0
    /\ first = NoQuery
    /\ matched = << >>
    /\ promoted = << >>

Init ==
    /\ call = NoCall
    /\ returned = NoReturn
    /\ m \in 1..Len(Meshes)
    /\ from \in QueryPoints(m)
    /\ to \in QueryPoints(m)
    /\ pc = "start"
    /\ polygon_to = 0
    /\ queue = << >>
    /\ node_buffer = << >>
    /\ root_history = << >>
    /\ node = NoNode
    /\ result = NoResult
    /\ created = 0
    /\ popped = << >>
    /\ popped_from = << >>
    /\ expanded = << >>
    /\ steps = 0
    /\ queries = 0
    /\ first = NoQuery
    /\ matched = << >>
    /\ promoted = << >>

\* path(), lines 225-226: `from` is in no polygon and unwrap() panics
PathPanic ==
    /\ pc = "start"
    /\ point_in_polygon(Mesh, from) = UsizeMax
    /\ pc' = "panic"
    /\ UNCHANGED << promoted, matched, call, returned, queries, first, m, from, to, polygon_to, queue, node_buffer, root_history, node,
                    result, created, popped, popped_from, expanded, steps >>

\* a same-polygon return that also lists `from`
PathSamePolygonWithFrom ==
    /\ pc = "start"
    /\ point_in_polygon(Mesh, from) # UsizeMax
    /\ point_in_polygon(Mesh, from) = point_in_polygon(Mesh, to)
    /\ result' = [len |-> distance_between(from, to), path |-> << from, to >>]
    /\ pc' = "done"
    /\ UNCHANGED << promoted, matched, call, returned, queries, first, m, from, to, polygon_to, queue, node_buffer, root_history, node,
                    created, popped, popped_from, expanded, steps >>

\* path(), lines 225-234: both points are in the same polygon
PathSamePolygon ==
    /\ pc = "start"
    /\ point_in_polygon(Mesh, from) # UsizeMax
    /\ point_in_polygon(Mesh, from) = point_in_polygon(Mesh, to)
    /\ result' = [len |-> distance_between(from, to), path |-> << to >>]
    /\ pc' = "done"
    /\ UNCHANGED << promoted, matched, call, returned, queries, first, m, from, to, polygon_to, queue, node_buffer, root_history, node,
                    created, popped, popped_from, expanded, steps >>

\* path(), lines 258-267: the node the seeds are made from
empty_node(starting_polygon_index) ==
    [ path |-> << >>, r |-> from, i |-> << <<0, 0>>, <<0, 0>> >>,
      i_index |-> <<0, 0>>, polygon_from |-> -1,
      polygon_to |-> AsIsize(starting_polygon_index), f |-> 0, g |-> 0 ]

\* path(), lines 236-287: the search instance after the seeding loop
Seeded(starting_polygon_index, ending_polygon) ==
    SeedLoop(Mesh, from, to, AsIsize(ending_polygon),
             [ node_buffer |-> << >>, root_history |-> (from :> 0), created |-> 1,
               matched |-> << >> ],
             empty_node(starting_polygon_index),
             edges_index(PolygonAt(Mesh, starting_polygon_index)), 1)

\* path(), line 288: flush_nodes on an empty queue
SeedFlush(si, ending_polygon) ==
    /\ polygon_to' = AsIsize(ending_polygon)
    /\ queue' = si.node_buffer
    /\ node_buffer' = << >>
    /\ root_history' = si.root_history
    /\ created' = si.created
    /\ matched' = si.matched

\* path(), lines 225-288 with both polygons located
PathSeedIn(starting_polygon_index, ending_polygon) ==
    /\ starting_polygon_index # UsizeMax
    /\ starting_polygon_index # ending_polygon
    /\ SeedFlush(Seeded(starting_polygon_index, ending_polygon), ending_polygon)

\* path(), lines 225-288: the search instance, the empty node, the seeds, the flush
PathSeed ==
    /\ pc = "start"
    /\ PathSeedIn(point_in_polygon(Mesh, from), point_in_polygon(Mesh, to))
    /\ pc' = "pop"
    /\ UNCHANGED << promoted, call, returned, queries, first, m, from, to, node, result, popped, popped_from, expanded, steps >>

\* a failure result that carries the goal as a turn point
PopEmptyWithGoal ==
    /\ pc = "pop"
    /\ queue = << >>
    /\ result' = [len |-> -LenScale, path |-> << to >>]
    /\ pc' = "done"
    /\ UNCHANGED << promoted, matched, call, returned, queries, first, m, from, to, polygon_to, queue, node_buffer, root_history, node,
                    created, popped, popped_from, expanded, steps >>

\* path(), lines 290 and 326-329: the queue is empty
PopEmpty ==
    /\ pc = "pop"
    /\ queue = << >>
    /\ result' = [len |-> -LenScale, path |-> << >>]
    /\ pc' = "done"
    /\ UNCHANGED << promoted, matched, call, returned, queries, first, m, from, to, polygon_to, queue, node_buffer, root_history, node,
                    created, popped, popped_from, expanded, steps >>

\* BinaryHeap::pop gives a greatest node under Ord; which one of several is the
\* heap's business
IsGreatest(k) == \A j \in 1..Len(queue) : SearchNodeCmp(queue[j], queue[k]) # "Greater"

\* path(), lines 290-323: the popped node enters the goal polygon
PopGoal ==
    /\ pc = "pop"
    /\ steps < MaxSteps
    /\ \E k \in 1..Len(queue) :
          /\ IsGreatest(k)
          /\ queue[k].polygon_to = polygon_to
          /\ queue' = RemoveAt(queue, k)
          /\ popped' = Append(popped, queue[k])
          /\ result' = [len  |-> queue[k].f + queue[k].g,
                        path |-> Reconstruct(from, to, queue[k])]
    /\ popped_from' = queue
    /\ pc' = "done"
    /\ steps' = steps + 1
    /\ UNCHANGED << promoted, matched, call, returned, queries, first, m, from, to, polygon_to, node_buffer, root_history, node, created,
                    expanded >>

\* path(), lines 290-324: the popped node is handed to successors()
PopExpand ==
    /\ pc = "pop"
    /\ steps < MaxSteps
    /\ \E k \in 1..Len(queue) :
          /\ IsGreatest(k)
          /\ queue[k].polygon_to # polygon_to
          /\ queue' = RemoveAt(queue, k)
          /\ popped' = Append(popped, queue[k])
          /\ node' = queue[k]
    /\ popped_from' = queue
    /\ pc' = "successors"
    /\ steps' = steps + 1
    /\ UNCHANGED << promoted, matched, call, returned, queries, first, m, from, to, polygon_to, node_buffer, root_history, result, created,
                    expanded >>

\* what one pass of the loop of successors() leaves in the search instance
AfterSuccessors ==
    SuccessorsLoop(Mesh, to, polygon_to,
                   [ node_buffer |-> node_buffer, root_history |-> root_history,
                     created |-> created, matched |-> matched ],
                   node, edges_between(Mesh, node), 1)

\* a fast path that takes the sole buffered node whatever its polygon_to
IsIntermediateAny(si) == Len(si.node_buffer) = 1

\* successors(), line 740: the buffer holds one node and it is not a goal node
IsIntermediate(si) ==
    Len(si.node_buffer) = 1 /\ si.node_buffer[1].polygon_to # polygon_to

\* successors(), lines 740-745: the sole buffered node becomes the next node
ChainOn(si) ==
    /\ IsIntermediate(si)
    /\ node' = si.node_buffer[1]
    /\ node_buffer' = << >>
    /\ root_history' = si.root_history
    /\ created' = si.created
    /\ matched' = si.matched

\* successors(), lines 753-764: the loop ends and flush_nodes runs
FlushOn(si) ==
    /\ ~IsIntermediate(si)
    /\ queue' = queue \o si.node_buffer
    /\ node_buffer' = << >>
    /\ root_history' = si.root_history
    /\ created' = si.created
    /\ matched' = si.matched

\* successors(), lines 655-752: one pass that ends with the sole buffered node
\* as the next node
SuccessorsChain ==
    /\ pc = "successors"
    /\ steps < MaxSteps
    /\ ChainOn(AfterSuccessors)
    /\ promoted' = Append(promoted, node')
    /\ expanded' = Append(expanded, node)
    /\ steps' = steps + 1
    /\ UNCHANGED << call, returned, queries, first, m, from, to, pc, polygon_to, queue, result, popped, popped_from >>

\* successors(), lines 655-765: one pass that ends the loop and flushes
SuccessorsFlush ==
    /\ pc = "successors"
    /\ steps < MaxSteps
    /\ FlushOn(AfterSuccessors)
    /\ expanded' = Append(expanded, node)
    /\ node' = NoNode
    /\ pc' = "pop"
    /\ steps' = steps + 1
    /\ UNCHANGED << promoted, call, returned, queries, first, m, from, to, polygon_to, result, popped, popped_from >>

\* a next call that finds the root history the last call left
PathAgainWithHistory ==
    /\ pc = "done"
    /\ queries + 1 < MaxQueries
    /\ queries' = queries + 1
    /\ first' = IF queries = 0 THEN [from |-> from, to |-> to, result |-> result]
                               ELSE first
    /\ from' \in {from, to}
    /\ to' \in {from, to}
    /\ pc' = "start"
    /\ polygon_to' = 0
    /\ queue' = << >>
    /\ node_buffer' = << >>
    /\ node' = NoNode
    /\ result' = NoResult
    /\ created' = 0
    /\ popped' = << >>
    /\ popped_from' = << >>
    /\ expanded' = << >>
    /\ steps' = 0
    /\ matched' = << >>
    /\ promoted' = << >>
    /\ UNCHANGED << call, returned, m, root_history >>

\* the caller, after path() has returned: path(&self, ...) borrows the mesh
\* immutably and returns an owned Path; the next call builds its own
\* SearchInstance (lines 236-256), the last one was dropped at the return.
\* The next call is between the two points of the last one, in either order.
PathAgain ==
    /\ pc = "done"
    /\ queries + 1 < MaxQueries
    /\ queries' = queries + 1
    /\ first' = IF queries = 0 THEN [from |-> from, to |-> to, result |-> result]
                               ELSE first
    /\ from' \in {from, to}
    /\ to' \in {from, to}
    /\ pc' = "start"
    /\ polygon_to' = 0
    /\ queue' = << >>
    /\ node_buffer' = << >>
    /\ root_history' = << >>
    /\ node' = NoNode
    /\ result' = NoResult
    /\ created' = 0
    /\ popped' = << >>
    /\ popped_from' = << >>
    /\ expanded' = << >>
    /\ steps' = 0
    /\ matched' = << >>
    /\ promoted' = << >>
    /\ UNCHANGED << call, returned, m >>

Next ==
    \/ PathPanic
    \/ PathSamePolygon
    \/ PathSeed
    \/ PopEmpty
    \/ PopGoal
    \/ PopExpand
    \/ SuccessorsChain
    \/ SuccessorsFlush
    \/ PathAgain

Spec == Init /\ [][Next]_vars

(***************************************************************************)
(* Polygon::new on its own: polygons of up to MaxSides sides whose          *)
(* neighbours are -1 or one of the polygons 0..MaxNeighbour.               *)
(***************************************************************************)
MaxSides == 4
MaxNeighbour == 1

PolygonData ==
    UNION { { [k \in 1..nb |-> k - 1] \o nbs : nbs \in [1..nb -> -1..MaxNeighbour] }
            : nb \in 3..MaxSides }

InitPolygon ==
    /\ NoSearch
    /\ call \in { [fn |-> "Polygon::new", nb |-> Len(data) \div 2, data |-> data]
                   : data \in PolygonData }
    /\ returned = NoReturn

PolygonNew ==
    /\ call.fn = "Polygon::new"
    /\ returned = NoReturn
    /\ returned' = Polygon_new(call.nb, call.data)
    /\ UNCHANGED << call, m, from, to, pc, polygon_to, queue, node_buffer,
                    root_history, node, result, created, popped, popped_from,
                    expanded, steps, queries, first, matched, promoted >>

NextPolygon == PolygonNew

SpecPolygon == InitPolygon /\ [][NextPolygon]_vars

(***************************************************************************)
(* The match of add_node on its own, on a root history of one entry, with  *)
(* roots that are closer to each other than the hundredths of the meshes:  *)
(* coordinates in units of 1 / FineScale.                                  *)
(***************************************************************************)
FineScale == 100000
FineRoots == { << x, y >> : x \in {-11, -3, 0, 3, 9, 10, 11, 19}, y \in {0, 3} }
FineLengths == {1000, 2000}

\* lines 607-631 for a candidate of the given root and f
MatchAt(history, root, f, scale) ==
    IF RootHistoryHasAt(history, root, scale)
    THEN IF history[root] < f
         THEN [occupied |-> TRUE, buffered |-> FALSE, root_history |-> history]
         ELSE [occupied |-> TRUE, buffered |-> TRUE,
               root_history |-> (root :> f) @@ history]
    ELSE [occupied |-> FALSE, buffered |-> TRUE,
          root_history |-> (root :> f) @@ history]

InitRoot ==
    /\ NoSearch
    /\ call \in { [fn |-> "add_node", key |-> k, root_history |-> (k :> f0),
                    root |-> r, f |-> f1]
                   : k \in FineRoots, r \in FineRoots,
                     f0 \in FineLengths, f1 \in FineLengths }
    /\ returned = NoReturn

RootMatch ==
    /\ call.fn = "add_node"
    /\ returned = NoReturn
    /\ returned' = MatchAt(call.root_history, call.root, call.f, FineScale)
    /\ UNCHANGED << call, m, from, to, pc, polygon_to, queue, node_buffer,
                    root_history, node, result, created, popped, popped_from,
                    expanded, steps, queries, first, matched, promoted >>

NextRoot == RootMatch

SpecRoot == InitRoot /\ [][NextRoot]_vars

(***************************************************************************)
(* turning_on on its own, for a root, a goal and an interval whose points  *)
(* have whole coordinates from 0 to MaxCoord.                              *)
(***************************************************************************)
MaxCoord == 2

TurnPoints == { << x * Scale, y * Scale >> : x \in 0..MaxCoord, y \in 0..MaxCoord }

InitTurning ==
    /\ NoSearch
    /\ call \in { [fn |-> "turning_on", r |-> r, to |-> t, i |-> << a, b >>]
                   : r \in TurnPoints, t \in TurnPoints,
                     a \in TurnPoints, b \in TurnPoints }
    /\ call.i[1] # call.i[2]
    /\ returned = NoReturn

TurningOn ==
    /\ call.fn = "turning_on"
    /\ returned = NoReturn
    /\ returned' = [turn |-> turning_on(call.r, call.to, call.i)]
    /\ UNCHANGED << call, m, from, to, pc, polygon_to, queue, node_buffer,
                    root_history, node, result, created, popped, popped_from,
                    expanded, steps, queries, first, matched, promoted >>

NextTurning == TurningOn

SpecTurning == InitTurning /\ [][NextTurning]_vars

(***************************************************************************)
(* add_node on its own, on tests::mesh_u_grid: the search instance has a   *)
(* goal, an empty buffer, a queue of one node and a root history that is   *)
(* empty or holds one f for the root of the candidate; the parent is a     *)
(* seed of the query from (0.1, 1.9).  The interval is an edge of the      *)
(* parent's polygon or the point that edges_between gives for a left       *)
(* split at the start of an edge.                                          *)
(***************************************************************************)
AddNodeParent ==
    [ path |-> << >>, r |-> << 10, 190 >>,
      i |-> << << 0, 100 >>, << 100, 100 >> >>, i_index |-> << 4, 5 >>,
      polygon_from |-> 3, polygon_to |-> 0, f |-> 0, g |-> 2693 ]

AddNodeQueued ==
    [ path |-> << >>, r |-> << 10, 190 >>,
      i |-> << << 100, 100 >>, << 100, 200 >> >>, i_index |-> << 5, 9 >>,
      polygon_from |-> 3, polygon_to |-> 0, f |-> 0, g |-> 2000 ]

AddNodeGoals == { << 250, 150 >>, << 150, 50 >>, << 50, 150 >> }
AddNodeRoots == { << 10, 190 >>, << 100, 100 >> }
AddNodeRecorded == { 0, 500, 5000 }
AddNodeFarSides == { IsizeMax, 1, 3, 4 }
AddNodeIntervals ==
    { << << << 100, 0 >>, 1 >>, << << 100, 100 >>, 5 >> >>,
      << << << 100, 0 >>, 1 >>, << << 100, 0 >>, 5 >> >>,
      << << << 100, 50 >>, 1 >>, << << 100, 100 >>, 5 >> >> }

InitAddNode ==
    /\ m = 1
    /\ from = << 10, 190 >>
    /\ to \in AddNodeGoals
    /\ pc = "add_node"
    /\ polygon_to = AsIsize(point_in_polygon(Mesh, to))
    /\ queue = << AddNodeQueued >>
    /\ node_buffer = << >>
    /\ call \in { [fn |-> "add_node", root |-> r, other_side |-> o,
                    start |-> i[1], end |-> i[2]]
                   : r \in AddNodeRoots, o \in AddNodeFarSides, i \in AddNodeIntervals }
    /\ root_history \in { << >> } \cup { (call.root :> f) : f \in AddNodeRecorded }
    /\ node = AddNodeParent
    /\ result = NoResult
    /\ created = 1
    /\ popped = << >>
    /\ popped_from = << >>
    /\ expanded = << >>
    /\ steps = 0
    /\ queries = 0
    /\ first = NoQuery
    /\ matched = << >>
    /\ promoted = << >>
    /\ returned = NoReturn

\* the search instance add_node leaves
AddNodeTo(si) ==
    /\ node_buffer' = si.node_buffer
    /\ root_history' = si.root_history
    /\ created' = si.created
    /\ matched' = si.matched

AddNode ==
    /\ call.fn = "add_node"
    /\ returned = NoReturn
    /\ AddNodeTo(add_node(Mesh, to, polygon_to,
                          [ node_buffer |-> node_buffer, root_history |-> root_history,
                            created |-> created, matched |-> matched ],
                          call.root, call.other_side, call.start, call.end, node))
    /\ returned' = [done |-> TRUE]
    /\ UNCHANGED << call, m, from, to, pc, polygon_to, queue, node, result, popped,
                    popped_from, expanded, steps, queries, first, promoted >>

NextAddNode == AddNode

SpecAddNode == InitAddNode /\ [][NextAddNode]_vars

(***************************************************************************)
(* Reference geometry for the properties: exact integer tests that a       *)
(* segment stays in the union of the polygons, and shortest distances over *)
(* the visibility graph of the corners.                                    *)
(***************************************************************************)
\* (a - o) x (b - o) and u x v
Cross(o, a, b) == (a[1] - o[1]) * (b[2] - o[2]) - (a[2] - o[2]) * (b[1] - o[1])
Cross2(u, v) == u[1] * v[2] - u[2] * v[1]
Minus(a, b) == << a[1] - b[1], a[2] - b[2] >>

\* v is a point of the closed segment [p, q]
OnSegmentExact(v, p, q) ==
    /\ Cross(p, q, v) = 0
    /\ MinI(p[1], q[1]) <= v[1] /\ v[1] <= MaxI(p[1], q[1])
    /\ MinI(p[2], q[2]) <= v[2] /\ v[2] <= MaxI(p[2], q[2])

\* the edges with no polygon on the other side, as pairs of points
ObstaclesOf(mesh) ==
    UNION { { EdgePoints(mesh, edges_index(PolygonAt(mesh, n))[k]) :
                k \in { j \in 1..Len(PolygonAt(mesh, n).vertices) :
                          other_side_of(mesh, edges_index(PolygonAt(mesh, n))[j], n)
                            = IsizeMax } } :
            n \in 0..(Len(mesh.polygons) - 1) }

\* <<v, u, w>> for every vertex v of every polygon, u before it and w after it
WedgesOfPolygon(mesh, vs) ==
    { << VertexAt(mesh, vs[k]).p,
         VertexAt(mesh, vs[((k + Len(vs) - 2) % Len(vs)) + 1]).p,
         VertexAt(mesh, vs[(k % Len(vs)) + 1]).p >> : k \in 1..Len(vs) }

WedgesOf(mesh) ==
    UNION { WedgesOfPolygon(mesh, PolygonAt(mesh, n).vertices) :
            n \in 0..(Len(mesh.polygons) - 1) }

\* the corners of a mesh, in vertex order
RECURSIVE CornersFrom(_, _)
CornersFrom(mesh, k) ==
    IF k > Len(mesh.vertices) THEN << >>
    ELSE (IF mesh.vertices[k].is_corner THEN << mesh.vertices[k].p >> ELSE << >>)
         \o CornersFrom(mesh, k + 1)

RECURSIVE ObstaclesUpTo(_)
ObstaclesUpTo(k) ==
    IF k = 0 THEN << >> ELSE Append(ObstaclesUpTo(k - 1), ObstaclesOf(Meshes[k]))

RECURSIVE WedgesUpTo(_)
WedgesUpTo(k) ==
    IF k = 0 THEN << >> ELSE Append(WedgesUpTo(k - 1), WedgesOf(Meshes[k]))

RECURSIVE CornersUpTo(_)
CornersUpTo(k) ==
    IF k = 0 THEN << >> ELSE Append(CornersUpTo(k - 1), CornersFrom(Meshes[k], 1))

\* per mesh of Meshes
Obstacles == ObstaclesUpTo(Len(Meshes))
Wedges == WedgesUpTo(Len(Meshes))
Corners == CornersUpTo(Len(Meshes))

\* p is in the closed union of the polygons of mesh number mm
InMeshExact(mm, p) ==
    \E n \in 0..(Len(Meshes[mm].polygons) - 1) :
        \A k \in 1..Len(PolygonAt(Meshes[mm], n).vertices) :
            Cross(EdgePoints(Meshes[mm], edges_index(PolygonAt(Meshes[mm], n))[k])[1],
                  EdgePoints(Meshes[mm], edges_index(PolygonAt(Meshes[mm], n))[k])[2],
                  p) >= 0

\* [p, q] crosses [a, b] at a point interior to both
ProperCross(p, q, a, b) ==
    /\ Sgn(Cross(p, q, a)) * Sgn(Cross(p, q, b)) < 0
    /\ Sgn(Cross(a, b, p)) * Sgn(Cross(a, b, q)) < 0

\* p is on the edge e and is neither of its ends
StrictlyInside(p, e) == OnSegmentExact(p, e[1], e[2]) /\ p # e[1] /\ p # e[2]

\* leaving the mesh vertex v in direction d stays in some polygon that has v
FreeDirection(mm, v, d) ==
    \E w \in Wedges[mm] :
        /\ w[1] = v
        /\ Cross2(Minus(w[3], v), d) >= 0
        /\ Cross2(d, Minus(w[2], v)) >= 0

\* Every point of [p, q] is in the closed union of the polygons, for p and q
\* that are: no obstacle edge is crossed, an end that lies on an obstacle edge
\* leaves it to the polygon's side, and at every corner on the segment the
\* segment continues into a polygon.
Visible(mm, p, q) ==
    \/ p = q
    \/ /\ \A e \in Obstacles[mm] :
             /\ ~ProperCross(p, q, e[1], e[2])
             /\ StrictlyInside(p, e) => Cross2(Minus(e[2], e[1]), Minus(q, p)) >= 0
             /\ StrictlyInside(q, e) => Cross2(Minus(e[2], e[1]), Minus(p, q)) >= 0
       /\ \A k \in 1..Len(Corners[mm]) :
             OnSegmentExact(Corners[mm][k], p, q) =>
                 /\ Corners[mm][k] # q
                      => FreeDirection(mm, Corners[mm][k], Minus(q, Corners[mm][k]))
                 /\ Corners[mm][k] # p
                      => FreeDirection(mm, Corners[mm][k], Minus(p, Corners[mm][k]))

\* a length no path of the meshes has
Unreachable == 100000 * LenScale

\* the Euclidean length of [p, q], in length units, rounded down
Length(p, q) ==
    Sqrt(((q[1] - p[1]) * (q[1] - p[1]) + (q[2] - p[2]) * (q[2] - p[2]))
         * (LenScale \div Scale) * (LenScale \div Scale))

\* the length of [p, q] if it is in the mesh
DirectLen(mm, p, q) ==
    IF Visible(mm, p, q) THEN Length(p, q) ELSE Unreachable

\* the direct lengths between the corners: row i from column j on, rows from i on
RECURSIVE DirectRow(_, _, _)
DirectRow(mm, i, j) ==
    IF j > Len(Corners[mm]) THEN << >>
    ELSE << DirectLen(mm, Corners[mm][i], Corners[mm][j]) >> \o DirectRow(mm, i, j + 1)

RECURSIVE DirectRows(_, _)
DirectRows(mm, i) ==
    IF i > Len(Corners[mm]) THEN << >>
    ELSE << DirectRow(mm, i, 1) >> \o DirectRows(mm, i + 1)

\* Floyd-Warshall: paths may also pass through corner k
RECURSIVE RelaxRow(_, _, _, _)
RelaxRow(D, k, i, j) ==
    IF j > Len(D) THEN << >>
    ELSE << MinI(D[i][j], MinI(Unreachable, D[i][k] + D[k][j])) >>
         \o RelaxRow(D, k, i, j + 1)

RECURSIVE RelaxRows(_, _, _)
RelaxRows(D, k, i) ==
    IF i > Len(D) THEN << >>
    ELSE << RelaxRow(D, k, i, 1) >> \o RelaxRows(D, k, i + 1)

RECURSIVE Relaxed(_, _)
Relaxed(D, k) == IF k > Len(D) THEN D ELSE Relaxed(RelaxRows(D, k, 1), k + 1)

RECURSIVE CornerPathsUpTo(_)
CornerPathsUpTo(k) ==
    IF k = 0 THEN << >>
    ELSE Append(CornerPathsUpTo(k - 1), Relaxed(DirectRows(k, 1), 1))

\* per mesh, the shortest lengths between its corners
CornerPaths == CornerPathsUpTo(Len(Meshes))

\* the direct lengths from p to the corners, from corner k on
RECURSIVE ToCorners(_, _, _)
ToCorners(mm, p, k) ==
    IF k > Len(Corners[mm]) THEN << >>
    ELSE << DirectLen(mm, p, Corners[mm][k]) >> \o ToCorners(mm, p, k + 1)

\* the least row[j] + vq[j] from j on
RECURSIVE MinRow(_, _, _)
MinRow(row, vq, j) ==
    IF j > Len(vq) THEN Unreachable
    ELSE MinI(row[j] + vq[j], MinRow(row, vq, j + 1))

\* the least vp[i] + paths[i][j] + vq[j] from i on
RECURSIVE MinVia(_, _, _, _)
MinVia(paths, vp, vq, i) ==
    IF i > Len(vp) THEN Unreachable
    ELSE IF vp[i] >= Unreachable THEN MinVia(paths, vp, vq, i + 1)
    ELSE MinI(vp[i] + MinRow(paths[i], vq, 1), MinVia(paths, vp, vq, i + 1))

\* the length of a shortest polyline from p to q in the mesh; Unreachable if none
ShortestLen(mm, p, q) ==
    MinI(Unreachable,
         MinI(DirectLen(mm, p, q),
              MinVia(CornerPaths[mm], ToCorners(mm, p, 1), ToCorners(mm, q, 1), 1)))

\* the summed segment lengths of a polyline
RECURSIVE PolylineLen(_)
PolylineLen(pts) ==
    IF Len(pts) < 2 THEN 0
    ELSE Length(pts[1], pts[2]) + PolylineLen(Tail(pts))

\* every segment of a polyline is in the mesh
PolylineInside(mm, pts) ==
    \A k \in 1..(Len(pts) - 1) : Visible(mm, pts[k], pts[k + 1])

\* 0.01 as a length
LenTol == LenScale \div 100

\* the failure result of path()
Failure == [len |-> -LenScale, path |-> << >>]

\* the node of the last pop, and `from` followed by the returned turn points
LastPopped == popped[Len(popped)]
Travelled == << from >> \o result.path

\* path() returned a path that the search found
Found == pc = "done" /\ result.len >= 0 /\ popped # << >>

(***************************************************************************)
(* Properties                                                              *)
(***************************************************************************)

\* C1: when point location puts from and to in the same polygon (from = to
\* included), path() returns len = distance(from, to), which is 0 for from = to,
\* and path = [to], and no search node was constructed on the way.
C1_SamePolygon ==
    ( /\ pc # "start"
      /\ point_in_polygon(Mesh, from) # UsizeMax
      /\ point_in_polygon(Mesh, from) = point_in_polygon(Mesh, to) )
    => /\ pc = "done"
       /\ result = [len |-> distance_between(from, to), path |-> << to >>]
       /\ from = to => result.len = 0
       /\ created = 0
       /\ popped = << >> /\ expanded = << >>

\* a same-polygon query between two different points has returned
C1_Witness ==
    /\ pc = "done"
    /\ from # to
    /\ point_in_polygon(Mesh, from) = point_in_polygon(Mesh, to)
    /\ result.path = << to >>
    /\ result.len > 0
    /\ created = 0

\* the conclusion of C2 for the shortest length `best`
C2_Within(best) ==
    best < Unreachable =>
        /\ result.len >= 0
        /\ result.path # << >>
        /\ result.path[Len(result.path)] = to
        /\ PolylineInside(m, Travelled)
        /\ PolylineLen(Travelled) <= best + LenTol
        /\ Abs(result.len - best) <= LenTol

C3_LengthMatchesPolyline ==
    ( /\ pc = "done"
      /\ result.len >= 0
      /\ point_in_mesh(Mesh, from)
      /\ point_in_mesh(Mesh, to) )
    => Abs(PolylineLen(Travelled) - result.len) <= LenTol

\* C4: path() returns the failure result exactly when the queue of the search
\* is empty and no popped node had the goal polygon as polygon_to; a length of
\* -1 comes with no turn point, a length >= 0 with at least one.
C4_FailureIffExhausted ==
    pc = "done"
    => /\ (result = Failure)
            <=> ( /\ created > 0
                  /\ queue = << >>
                  /\ \A k \in 1..Len(popped) : popped[k].polygon_to # polygon_to )
       /\ result.len < 0 => result = Failure
       /\ result.len >= 0 => result.path # << >>

\* a search that popped nodes ended with the failure result
C4_Witness ==
    /\ pc = "done"
    /\ result = Failure
    /\ Len(popped) >= 2
    /\ queue = << >>

\* C5: when point location finds no polygon for from or for to, path() does not
\* abort, and what it returns is the failure result.
C5_OutsideIsUnreachable ==
    ( \/ point_in_polygon(Mesh, from) = UsizeMax
      \/ point_in_polygon(Mesh, to) = UsizeMax )
    => /\ pc # "panic"
       /\ pc = "done" => result = Failure

\* C6: every query comes to return a path or the failure result: it does not
\* end in any other way, and the pop loop and the loop of successors() stop
\* before the query has taken MaxSteps steps.
C6_QueryReturns ==
    /\ pc \in {"start", "pop", "successors", "done"}
    /\ pc \in {"pop", "successors"} => steps < MaxSteps

\* C7: the node of every pop has the least f + g of the nodes that were in the
\* queue at that pop.
C7_PopIsMinimum ==
    popped # << >>
    => \A j \in 1..Len(popped_from) :
           LastPopped.f + LastPopped.g <= popped_from[j].f + popped_from[j].g

\* a pop that had a node of a greater f + g to choose from
C7_Witness ==
    /\ popped # << >>
    /\ \E j \in 1..Len(popped_from) :
           LastPopped.f + LastPopped.g < popped_from[j].f + popped_from[j].g

\* C8: the first popped node whose polygon_to is the goal polygon ends the
\* query, with its f + g as the length; no node whose polygon_to is the goal
\* polygon is given to edges_between, after a pop or as the next node of the
\* loop of successors().
C8_ReturnAtFirstGoalPop ==
    /\ \A k \in 1..Len(expanded) : expanded[k].polygon_to # polygon_to
    /\ pc = "successors" => node.polygon_to # polygon_to
    /\ \A k \in 1..Len(popped) :
           popped[k].polygon_to = polygon_to
           => /\ k = Len(popped)
              /\ pc = "done"
              /\ result.len = popped[k].f + popped[k].g
    /\ (pc = "done" /\ result.len >= 0 /\ created > 0)
           => popped # << >> /\ LastPopped.polygon_to = polygon_to

\* a goal node was popped after other nodes had been popped and expanded
C8_Witness ==
    /\ Found
    /\ Len(popped) >= 2
    /\ Len(expanded) >= 2
    /\ LastPopped.polygon_to = polygon_to

\* C9: the turn points of a path the search found are node.path without its
\* first element, then node.r if it is not `from`, then the point of
\* turning_on(node.r, to, node.i) if there is one, then `to`, for the popped
\* goal node; so there is at least one and the last one is `to`.
C9_TurnSequence ==
    Found
    => /\ result.path
            = SubSeq(LastPopped.path, 2, Len(LastPopped.path))
              \o (IF LastPopped.r # from THEN << LastPopped.r >> ELSE << >>)
              \o turning_on(LastPopped.r, to, LastPopped.i)
              \o << to >>
       /\ result.path # << >>
       /\ result.path[Len(result.path)] = to

\* a goal node with a longer path, a root of its own and a last turn
C9_Witness ==
    /\ Found
    /\ Len(LastPopped.path) >= 2
    /\ LastPopped.r # from
    /\ turning_on(LastPopped.r, to, LastPopped.i) # None

\* C10: in a path the search found, with `from` put in front, no point is
\* collinear with the one before it and the one after it, and no two
\* consecutive points are the same.
C10_NoRedundantTurns ==
    Found
    => /\ \A k \in 1..(Len(Travelled) - 1) : Travelled[k] # Travelled[k + 1]
       /\ \A k \in 2..(Len(Travelled) - 1) :
              Cross(Travelled[k - 1], Travelled[k], Travelled[k + 1]) # 0


\* the search nodes that exist: queued, buffered, in the hands of successors(),
\* or popped
LiveNodes ==
    { queue[k] : k \in 1..Len(queue) }
      \cup { node_buffer[k] : k \in 1..Len(node_buffer) }
      \cup { popped[k] : k \in 1..Len(popped) }
      \cup (IF pc = "successors" THEN { node } ELSE { })

\* the roots of a node in order: `from`, the roots left behind, the root
RootChain(n) == n.path \o << n.r >>

\* the direction of the mesh edge a node's interval lies on, in lowest terms
EdgeDirection(mm, n) ==
    LET d == Minus(VertexAt(Meshes[mm], n.i_index[2]).p,
                   VertexAt(Meshes[mm], n.i_index[1]).p)
    IN  << d[1] \div Gcd(Abs(d[1]), Abs(d[2])), d[2] \div Gcd(Abs(d[1]), Abs(d[2])) >>

\* The least |r - x| + |x - t| over the points x of the segment [a, b] of
\* direction e, in length units, rounded down: with pr, pt the positions of r
\* and t along e and hr, ht their distances from the line (times |e|), the
\* best x of the line is at (pr * ht + pt * hr) / (hr + ht); if that is on the
\* segment the length is that of the straight line to the mirror image, and
\* otherwise the best x is an end of the segment.
ThroughLen(r, t, a, b, e) ==
    LET pr == e[1] * (r[1] - a[1]) + e[2] * (r[2] - a[2])
        pt == e[1] * (t[1] - a[1]) + e[2] * (t[2] - a[2])
        pb == e[1] * (b[1] - a[1]) + e[2] * (b[2] - a[2])
        hr == Abs(Cross2(e, Minus(r, a)))
        ht == Abs(Cross2(e, Minus(t, a)))
        ee == e[1] * e[1] + e[2] * e[2]
    IN  IF hr + ht = 0 THEN Length(r, t)
        ELSE IF /\ 0 <= pr * ht + pt * hr
                /\ pr * ht + pt * hr <= pb * (hr + ht)
        THEN Sqrt((((pt - pr) * (pt - pr) + (hr + ht) * (hr + ht)) * 4) \div ee)
               * ((LenScale \div Scale) \div 2)
        ELSE MinI(Length(r, a) + Length(a, t), Length(r, b) + Length(b, t))

C12_OneFPerPoppedRoot ==
    \A j, k \in 1..Len(popped) :
        RootHashed(popped[j].r) = RootHashed(popped[k].r) => popped[j].f = popped[k].f

\* the search instance a call of path() starts with, lines 236-256
FreshInstance ==
    /\ queue = << >>
    /\ node_buffer = << >>
    /\ root_history = << >>
    /\ node = NoNode
    /\ result = NoResult

RECURSIVE CountTraversable(_, _, _)
CountTraversable(data, lo, hi) ==
    IF lo > hi THEN 0
    ELSE (IF data[lo] # -1 THEN 1 ELSE 0) + CountTraversable(data, lo + 1, hi)

\* C14: the polygon Polygon::new returns has is_one_way true if and only if
\* at most one of the neighbour entries of its data differs from -1.
C14_OneWayIffAtMostOne ==
    returned # NoReturn =>
        (returned.is_one_way
            <=> CountTraversable(call.data, call.nb + 1, 2 * call.nb) <= 1)

\* a polygon whose only neighbour is behind its last edge was made one-way
C14_Witness ==
    /\ returned # NoReturn
    /\ returned.is_one_way
    /\ call.data[2 * call.nb] # -1
    /\ CountTraversable(call.data, call.nb + 1, 2 * call.nb) = 1

\* the nodes of the queue and of the node buffer; while successors() runs, also
\* the node in hand and the buffer as its loop is about to leave it
HeldNodes ==
    { queue[k] : k \in 1..Len(queue) }
      \cup { node_buffer[k] : k \in 1..Len(node_buffer) }
      \cup (IF pc = "successors"
            THEN { node } \cup { AfterSuccessors.node_buffer[k] :
                                   k \in 1..Len(AfterSuccessors.node_buffer) }
            ELSE { })

\* the successors of the node n that lead into a one-way polygon that is not
\* the goal polygon
DeadEnds(n) ==
    { k \in 1..Len(edges_between(Mesh, n)) :
        /\ other_side_of(Mesh, edges_between(Mesh, n)[k].edge, n.polygon_to) # IsizeMax
        /\ other_side_of(Mesh, edges_between(Mesh, n)[k].edge, n.polygon_to) # polygon_to
        /\ PolygonAt(Mesh, other_side_of(Mesh, edges_between(Mesh, n)[k].edge,
                                         n.polygon_to)).is_one_way }

\* C15: no node of the queue or of the node buffer, a seed or a successor,
\* leads to no polygon (isize::MAX, or -1) or into a one-way polygon that is
\* not the goal polygon.
C15_NoDeadEndHeld ==
    \A n \in HeldNodes :
        /\ n.polygon_to # IsizeMax
        /\ n.polygon_to # -1
        /\ PolygonAt(Mesh, n.polygon_to).is_one_way => n.polygon_to = polygon_to

\* a node was expanded that has a successor into a dead end, and the queue
\* holds nodes
C15_Witness ==
    /\ pc = "pop"
    /\ queue # << >>
    /\ expanded # << >>
    /\ DeadEnds(expanded[Len(expanded)]) # { }

\* C16 as stated: add_node buffers a candidate and records its f only when its
\* root has no recorded f or a recorded f strictly greater than the
\* candidate's; with an equal f the candidate is dropped.
C16_KeptOnlyIfStrictlyBetter ==
    \A k \in 1..Len(matched) :
        /\ matched[k].buffered
              <=> \/ matched[k].recorded = None
                  \/ matched[k].recorded[1] > matched[k].f
        /\ matched[k].left = IF matched[k].buffered THEN Some(matched[k].f)
                                                    ELSE matched[k].recorded

\* C16 amended: add_node buffers a candidate and records its f only when its
\* root has no recorded f or a recorded f that is not smaller than the
\* candidate's; with an equal f the candidate is kept, with a strictly
\* smaller recorded f it is dropped and the history is left as it was.
C16_KeptUnlessRecordedSmaller ==
    \A k \in 1..Len(matched) :
        /\ matched[k].buffered
              <=> \/ matched[k].recorded = None
                  \/ matched[k].recorded[1] >= matched[k].f
        /\ matched[k].left = IF matched[k].buffered THEN Some(matched[k].f)
                                                    ELSE matched[k].recorded

\* add_node has kept a candidate with the f recorded for its root, a successor
\* and not a seed, and has dropped another for a smaller recorded f
C16_Witness ==
    /\ \E k \in 1..Len(matched) :
          /\ matched[k].recorded = Some(matched[k].f)
          /\ matched[k].f > 0
          /\ matched[k].buffered
    /\ \E k \in 1..Len(matched) :
          /\ matched[k].recorded # None
          /\ ~matched[k].buffered

\* C17: the root of a candidate is treated as the key of the entry of the
\* root history if and only if the two have equal discretised pairs; two
\* roots of equal discretised pairs share one entry.
C17_SameKeyIffSameDiscretised ==
    returned # NoReturn =>
        /\ returned.occupied
              <=> RootHashedAt(call.key, FineScale) = RootHashedAt(call.root, FineScale)
        /\ RootHashedAt(call.key, FineScale) = RootHashedAt(call.root, FineScale)
              => Cardinality(DOMAIN returned.root_history) = 1

\* the child c of the node n was made for the successor s by the rule of its
\* kind
ChildOf(c, n, s) ==
    /\ c.i = s.interval
    /\ c.i_index = s.edge
    /\ c.polygon_from = n.polygon_to
    /\ CASE s.ty = Observable ->
              c.r = n.r /\ c.f = n.f /\ c.path = n.path
         [] s.ty = RightNonObservable ->
              /\ distance_between(s.interval[1], VertexAt(Mesh, s.edge[1]).p) <= Eps5
              /\ VertexAt(Mesh, n.i_index[1]).is_corner
              /\ distance_between(VertexAt(Mesh, n.i_index[1]).p, n.i[1]) <= Eps5
              /\ c.r = n.i[1]
         [] s.ty = LeftNonObservable ->
              /\ distance_between(s.interval[2], VertexAt(Mesh, s.edge[2]).p) <= Eps5
              /\ VertexAt(Mesh, n.i_index[2]).is_corner
              /\ distance_between(VertexAt(Mesh, n.i_index[2]).p, n.i[2]) <= Eps5
              /\ c.r = n.i[2]

\* the successors of the node n of the kind ty for which the buffer holds no
\* child
Childless(buffer, n, ty) ==
    { k \in 1..Len(edges_between(Mesh, n)) :
        /\ edges_between(Mesh, n)[k].ty = ty
        /\ \A j \in 1..Len(buffer) : buffer[j].i # edges_between(Mesh, n)[k].interval }

\* C18: every node that a pass of successors() buffers is the child of a
\* successor of the node in hand by the rule of the successor's kind: an
\* observable one keeps the root, f and path of the node; a right (left)
\* non-observable one starts (ends) at the start (end) vertex of its edge, the
\* vertex node.i_index[0] (node.i_index[1]) is a corner that lies at node.i[0]
\* (node.i[1]), and that point is the child's root.  No other child is made.
C18_RootBySuccessorKind ==
    pc = "successors" =>
        /\ Len(AfterSuccessors.node_buffer) <= Len(edges_between(Mesh, node))
        /\ \A j \in 1..Len(AfterSuccessors.node_buffer) :
              \E k \in 1..Len(edges_between(Mesh, node)) :
                  ChildOf(AfterSuccessors.node_buffer[j], node,
                          edges_between(Mesh, node)[k])

\* a pass buffers an observable child and a child whose root is the right end
\* of the node's interval, and makes no child for a left non-observable
\* successor
C18_Witness ==
    /\ pc = "successors"
    /\ \E j \in 1..Len(AfterSuccessors.node_buffer) :
          /\ AfterSuccessors.node_buffer[j].r = node.i[1]
          /\ node.i[1] # node.r
    /\ \E j \in 1..Len(AfterSuccessors.node_buffer) :
          AfterSuccessors.node_buffer[j].r = node.r
    /\ Childless(AfterSuccessors.node_buffer, node, LeftNonObservable) # { }

\* the members of a sequence
Members(seq) == { seq[k] : k \in 1..Len(seq) }

\* no value is at two places of the sequence
NoTwice(seq) == \A j, k \in 1..Len(seq) : seq[j] = seq[k] => j = k

\* what a pass of successors() does with the buffer its loop leaves: the sole
\* node that is not a goal node becomes the node in hand and nothing is
\* queued, or else all of the buffer goes to the queue
ChainOrFlush(buffer) ==
    /\ node_buffer' = << >>
    /\ IF Len(buffer) = 1 /\ buffer[1].polygon_to # polygon_to
       THEN node' = buffer[1] /\ pc' = "successors" /\ queue' = queue
       ELSE queue' = queue \o buffer /\ pc' = "pop"

\* C19: a pass of successors() ends with the sole non-goal node of the buffer
\* as the next node to expand, nothing entering the queue, or else with the
\* whole buffer moved to the queue.  The buffer is empty whenever the queue is
\* popped, no node is expanded twice, and no node that was taken from the
\* buffer as the next node is or was in the queue.
C19_ChainOrFlush ==
    /\ [](/\ pc \in {"pop", "done"} => node_buffer = << >>
          /\ NoTwice(expanded)
          /\ Members(promoted) \cap (Members(queue) \cup Members(popped)) = { })
    /\ [][pc = "successors" => ChainOrFlush(AfterSuccessors.node_buffer)]_vars

\* a node was taken from the buffer and expanded, and after it the loop left
\* two nodes or a goal node in the buffer, which are in the queue
C19_Witness ==
    /\ pc = "pop"
    /\ promoted # << >>
    /\ promoted[Len(promoted)] = expanded[Len(expanded)]
    /\ Len(queue) > 1
    /\ popped # << >>

(***************************************************************************)
(* The search without the fast path of lines 740-745: after every pass of  *)
(* the loop of successors() the whole buffer goes to the queue and the     *)
(* next node is popped.  q is the queue, hist the root history, fuel the   *)
(* number of nodes that may still be expanded.                             *)
(***************************************************************************)
MaxFlushPops == 80

\* the place in q of a node that BinaryHeap::pop may give
GreatestOf(q) ==
    CHOOSE k \in 1..Len(q) : \A j \in 1..Len(q) : SearchNodeCmp(q[j], q[k]) # "Greater"

RECURSIVE AlwaysFlushFrom(_, _, _)
RECURSIVE AlwaysFlushPop(_, _, _, _)

\* the buffer si.node_buffer is flushed and the loop of path() goes on
AlwaysFlushPush(q, si, fuel) ==
    AlwaysFlushFrom(q \o si.node_buffer, si.root_history, fuel - 1)

\* the node at place k of q is popped
AlwaysFlushPop(q, hist, k, fuel) ==
    IF q[k].polygon_to = polygon_to
    THEN [len |-> q[k].f + q[k].g, path |-> Reconstruct(from, to, q[k])]
    ELSE IF fuel = 0 THEN NoResult
    ELSE AlwaysFlushPush(RemoveAt(q, k),
             SuccessorsLoop(Mesh, to, polygon_to,
                            [ node_buffer |-> << >>, root_history |-> hist,
                              created |-> 0, matched |-> << >> ],
                            q[k], edges_between(Mesh, q[k]), 1),
             fuel)

\* the while loop of path()
AlwaysFlushFrom(q, hist, fuel) ==
    IF q = << >> THEN [len |-> -LenScale, path |-> << >>]
    ELSE AlwaysFlushPop(q, hist, GreatestOf(q), fuel)

\* what the query of the state returns when it is searched without the fast
\* path
AlwaysFlushResult ==
    AlwaysFlushFrom(
        Seeded(point_in_polygon(Mesh, from), point_in_polygon(Mesh, to)).node_buffer,
        Seeded(point_in_polygon(Mesh, from), point_in_polygon(Mesh, to)).root_history,
        MaxFlushPops)

\* C20: a query that is searched returns the length, and so the outcome
\* (a length of -1 is the failure), that the search without the fast path
\* returns for it.
C20_FastPathSameLength ==
    pc = "done" /\ created > 0 =>
        /\ result.len = AlwaysFlushResult.len
        /\ (result.path = << >>) <=> (AlwaysFlushResult.path = << >>)

\* a query has returned a path with a turn after the fast path took a node
C20_Witness ==
    /\ pc = "done"
    /\ promoted # << >>
    /\ Len(result.path) > 1
    /\ result.len = AlwaysFlushResult.len

\* the places, among the edges of the start polygon, of the edges behind which
\* lies the goal polygon or a polygon that is not one-way
SeedEdges ==
    { k \in 1..Len(edges_index(PolygonAt(Mesh, point_in_polygon(Mesh, from)))) :
        /\ other_side_of(Mesh, edges_index(PolygonAt(Mesh, point_in_polygon(Mesh, from)))[k],
                         AsIsize(point_in_polygon(Mesh, from))) # IsizeMax
        /\ \/ other_side_of(Mesh, edges_index(PolygonAt(Mesh, point_in_polygon(Mesh, from)))[k],
                            AsIsize(point_in_polygon(Mesh, from))) = polygon_to
           \/ ~PolygonAt(Mesh, other_side_of(Mesh,
                    edges_index(PolygonAt(Mesh, point_in_polygon(Mesh, from)))[k],
                    AsIsize(point_in_polygon(Mesh, from)))).is_one_way }

\* n is the seed of the edge of the start polygon sp
IsSeedOf(n, edge, sp) ==
    /\ n.r = from
    /\ n.f = 0
    /\ n.path = << >>
    /\ n.i = EdgePoints(Mesh, edge)
    /\ n.i_index = edge
    /\ n.polygon_from = AsIsize(sp)
    /\ n.polygon_to = other_side_of(Mesh, edge, AsIsize(sp))

\* C21: when the seeding of a query is done, the queue holds, for every edge
\* of the start polygon behind which lies the goal polygon or a polygon that
\* is not one-way, a seed with root `from`, f = 0, no path, the whole edge as
\* its interval and the start polygon as polygon_from, and nothing else; each
\* of them went through add_node once and found f = 0 recorded for `from`.
C21_SeedPerOpenEdge ==
    pc = "pop" /\ steps = 0 =>
        /\ \A k \in SeedEdges : \E j \in 1..Len(queue) :
              IsSeedOf(queue[j],
                       edges_index(PolygonAt(Mesh, point_in_polygon(Mesh, from)))[k],
                       point_in_polygon(Mesh, from))
        /\ Len(queue) = Cardinality(SeedEdges)
        /\ Len(matched) = Cardinality(SeedEdges)
        /\ created = 1 + Cardinality(SeedEdges)
        /\ \A j \in 1..Len(matched) :
              /\ matched[j].root = from
              /\ matched[j].recorded = Some(0)
              /\ matched[j].buffered

\* a query is seeded with two seeds while an edge of the start polygon leads
\* nowhere or into a dead end
C21_Witness ==
    /\ pc = "pop" /\ steps = 0
    /\ Len(queue) = 2
    /\ Cardinality(SeedEdges) = 2
    /\ Len(edges_index(PolygonAt(Mesh, point_in_polygon(Mesh, from)))) > 2

\* the edges of a sequence of successors, an edge listed once for the
\* successors that follow each other on it
RECURSIVE VisitedFrom(_, _)
VisitedFrom(succs, k) ==
    IF k > Len(succs) THEN << >>
    ELSE IF k > 1 /\ succs[k].edge = succs[k - 1].edge THEN VisitedFrom(succs, k + 1)
    ELSE << succs[k].edge >> \o VisitedFrom(succs, k + 1)

\* the edges the successor generator visits for the node n
Visited(n) == VisitedFrom(edges_between(Mesh, n), 1)

\* the edges e run along the polygon P from the right end of the entry edge of
\* the node n to its left end, over every edge of P but the entry edge
AroundButEntry(e, P, n) ==
    /\ Len(e) = Len(P.vertices) - 1
    /\ e[1][1] = n.i_index[1]
    /\ e[Len(e)][2] = n.i_index[2]
    /\ \A j \in 1..Len(e) :
          /\ \E k \in 1..Len(P.vertices) : edges_index(P)[k] = e[j]
          /\ e[j] # << n.i_index[2], n.i_index[1] >>
          /\ j < Len(e) => e[j][2] = e[j + 1][1]
    /\ NoTwice(e)

\* C22: for the node in hand, whose i_index[1] is a vertex of its destination
\* polygon P of n vertices, the successor generator visits n - 1 edges: every
\* edge of P but the entry edge, once, in the order of P from the edge that
\* leaves the right end of the entry edge to the edge that arrives at its
\* left end.
C22_AllEdgesButEntry ==
    pc = "successors" =>
        AroundButEntry(Visited(node), PolygonAt(Mesh, node.polygon_to), node)

\* the walk goes over four edges or more and passes the last vertex of the
\* polygon's list
C22_Witness ==
    /\ pc = "successors"
    /\ Len(Visited(node)) >= 4
    /\ \E j \in 2..Len(Visited(node)) :
          Visited(node)[j][1] = PolygonAt(Mesh, node.polygon_to).vertices[1]

\* the successors k - d .. k of succs lie on one edge
SameEdgeBack(succs, k, d) ==
    k > d /\ \A j \in (k - d)..k : succs[j].edge = succs[k].edge

\* the successors of succs split every edge they lie on into one, two or
\* three intervals that follow each other from the start vertex of the edge
\* to its end vertex, and no two intervals of an edge are of the same kind
SplitsEdges(succs) ==
    \A k \in 1..Len(succs) :
        /\ ~SameEdgeBack(succs, k, 3)
        /\ IF SameEdgeBack(succs, k, 1)
           THEN /\ succs[k].interval[1] = succs[k - 1].interval[2]
                /\ succs[k].ty # succs[k - 1].ty
           ELSE succs[k].interval[1] = VertexAt(Mesh, succs[k].edge[1]).p
        /\ SameEdgeBack(succs, k, 2) => succs[k].ty # succs[k - 2].ty
        /\ IF k < Len(succs) /\ succs[k + 1].edge = succs[k].edge
           THEN TRUE
           ELSE succs[k].interval[2] = VertexAt(Mesh, succs[k].edge[2]).p

\* C23: for the node in hand, each of the edges the successor generator
\* visits (all of the destination polygon but the entry edge) gets between
\* one and three sub-intervals; they are contiguous from the start vertex of
\* the edge to its end vertex and their kinds are pairwise distinct.
C23_ContiguousDistinctKinds ==
    pc = "successors" =>
        /\ Len(Visited(node)) = Len(PolygonAt(Mesh, node.polygon_to).vertices) - 1
        /\ SplitsEdges(edges_between(Mesh, node))

\* lines 482-509 for the node n and the edge: the point of the edge kept as the
\* left split (end_intersection_p), None when there is none
LeftSplitOf(n, edge) ==
    EndIntersection(VertexAt(Mesh, edge[2]).p,
                    on_side(VertexAt(Mesh, edge[2]).p, << n.r, n.i[2] >>),
                    IF on_side(VertexAt(Mesh, edge[2]).p, << n.r, n.i[2] >>) = "Left"
                    THEN line_intersect_segment(<< n.r, n.i[2] >>, EdgePoints(Mesh, edge))
                    ELSE None)

\* the split, if there is one, is farther than 1e-3 from both points
StrictlyBetween(split, start_p, end_p) ==
    split # None =>
        /\ distance_between(split[1], start_p) > Eps3
        /\ distance_between(split[1], end_p) > Eps3

\* C24: for the node in hand and every edge the successor generator visits,
\* the point of the left ray that is kept as the left split is farther than
\* 1e-3 from the start of the edge and from its end, and no sub-interval that
\* ends at the left split is 1e-3 long or shorter.
C24_LeftSplitInterior ==
    pc = "successors" =>
        /\ \A j \in 1..Len(Visited(node)) :
              StrictlyBetween(LeftSplitOf(node, Visited(node)[j]),
                              VertexAt(Mesh, Visited(node)[j][1]).p,
                              VertexAt(Mesh, Visited(node)[j][2]).p)
        /\ \A k \in 1..Len(edges_between(Mesh, node)) :
              Some(edges_between(Mesh, node)[k].interval[2])
                    = LeftSplitOf(node, edges_between(Mesh, node)[k].edge)
                => distance_between(edges_between(Mesh, node)[k].interval[1],
                                    edges_between(Mesh, node)[k].interval[2]) > Eps3

\* the turn for the root r and the interval i when the goal, mirrored across i
\* if it had to be, is g: i[0] when g is right of the ray from r through
\* i[0], else i[1] when g is left of the ray from r through i[1], else none
TurnByRays(r, g, i) ==
    IF on_side(g, << r, i[1] >>) = "Right" THEN Some(i[1])
    ELSE IF on_side(g, << r, i[2] >>) = "Left" THEN Some(i[2])
    ELSE None

\* the goal as turning_on sees it: mirrored across i when it is on the side of
\* i that r is on
MirroredGoal(r, g, i) == IF on_side(r, i) = on_side(g, i) THEN mirror(g, i) ELSE g

\* C25 as stated: turning_on returns the turn the two rays give for the goal,
\* mirrored if it had to be, for every r, r = i[0] included.
C25_TurnByRaysForEveryRoot ==
    returned # NoReturn =>
        returned.turn = TurnByRays(call.r, MirroredGoal(call.r, call.to, call.i), call.i)

\* C25 amended: turning_on returns the turn the two rays give for the goal,
\* mirrored if it had to be, for every r other than i[0]; for r equal to i[0]
\* it returns no turn.
C25_TurnByRaysUnlessRootAtRight ==
    returned # NoReturn =>
        returned.turn = IF call.r = call.i[1] THEN None
                        ELSE TurnByRays(call.r, MirroredGoal(call.r, call.to, call.i),
                                        call.i)

\* turning_on was called with r = i[0] and a goal left of the ray from r
\* through i[1], and returned no turn
C25_Witness ==
    /\ returned # NoReturn
    /\ call.r = call.i[1]
    /\ on_side(MirroredGoal(call.r, call.to, call.i), << call.r, call.i[2] >>) = "Left"
    /\ returned.turn = None

\* the candidate of the call of add_node
Candidate ==
    NewNode(to, call.root, call.other_side, call.start, call.end, node)

\* add_node drops its candidate: no polygon behind the edge, a one-way polygon
\* that is not the goal polygon, a NaN f or g, a smaller f recorded for the
\* root
Drops ==
    \/ call.other_side = IsizeMax
    \/ call.other_side # polygon_to /\ PolygonAt(Mesh, call.other_side).is_one_way
    \/ Candidate.f = NaN
    \/ Candidate.g = NaN
    \/ Recorded(root_history, call.root) # None
          /\ Recorded(root_history, call.root)[1] < Candidate.f

\* C26: a call of add_node that drops its candidate leaves the root history,
\* the node buffer and the queue as they were, and a call that keeps it
\* appends it to the buffer, records its f and leaves the queue; no NaN is
\* recorded in the root history and no node with a NaN f or g is buffered or
\* queued.
C26_DropLeavesAll ==
    /\ [](/\ \A r \in DOMAIN root_history : root_history[r] # NaN
          /\ \A k \in 1..Len(node_buffer) :
                node_buffer[k].f # NaN /\ node_buffer[k].g # NaN
          /\ \A k \in 1..Len(queue) : queue[k].f # NaN /\ queue[k].g # NaN)
    /\ [][IF Drops
          THEN UNCHANGED << root_history, node_buffer, queue >>
          ELSE /\ node_buffer' = Append(node_buffer, Candidate)
               /\ Recorded(root_history', call.root) = Some(Candidate.f)
               /\ queue' = queue]_vars

\* add_node has returned from a candidate whose g is NaN, behind whose edge
\* lies the goal polygon, with nothing recorded for its root
C26_Witness ==
    /\ call.fn = "add_node"
    /\ returned # NoReturn
    /\ call.other_side = polygon_to
    /\ Candidate.g = NaN
    /\ Candidate.f # NaN
    /\ root_history = << >>
    /\ node_buffer = << >>

\* the nodes buffered, queued, popped or being expanded
SearchedNodes ==
    HeldNodes \cup { popped[k] : k \in 1..Len(popped) }
              \cup { expanded[k] : k \in 1..Len(expanded) }

\* C27: a node buffered, queued or expanded has an empty path if its root is
\* `from`, and otherwise a path that is not empty and starts with `from`.
C27_PathStartsAtFrom ==
    \A n \in SearchedNodes :
        IF n.r = from THEN n.path = << >>
        ELSE n.path # << >> /\ n.path[1] = from

\* an expanded node whose root is `from` and a queued node whose path holds
\* `from` and a turn point
C27_Witness ==
    /\ \E k \in 1..Len(expanded) : expanded[k].r = from /\ expanded[k].path = << >>
    /\ \E k \in 1..Len(queue) :
          /\ Len(queue[k].path) >= 2
          /\ queue[k].path[1] = from
          /\ queue[k].path[2] # from

\* p is the position of a corner of the mesh of the query
IsCornerPosition(p) ==
    \E k \in 1..Len(Mesh.vertices) :
        Mesh.vertices[k].is_corner /\ Mesh.vertices[k].p = p

\* the node whose pop ended the query
GoalNode == popped[Len(popped)]

=============================================================================
